---- MODULE Spec2Model ----
(***************************************************************************)
(* The dtest-controller scheduling engine: events (core/event.py),        *)
(* components (core/systemcomponent.py), the system under test            *)
(* (core/systemundertest.py) and the per-SUT scheduler thread with its    *)
(* worker threads (core/scheduler.py).                                     *)
(*                                                                         *)
(* Time is the wall clock in whole seconds.  A uniform sample of          *)
(* random.random() is kept as one of its two extremes, 0 (the sample 0.0) *)
(* and 1 (the largest sample below 1.0): every hazard compares the sample *)
(* with a probability by <=, so these two decide which outcomes exist.    *)
(***************************************************************************)
EXTENDS Integers, Sequences, FiniteSets, TLC

\* ------------------------------------------------------------------ bounds
\* Last clock reading at which the scheduler may begin a further tick.
MaxTime == 2
\* Seconds by which thread start-up or one sleep may overrun.
MaxJitter == 1
\* Worker threads the scheduler may hold when it begins a further tick.
MaxJobs == 1
\* Last clock reading at which a run of a one-component scenario may begin
\* a further tick.
MaxScenarioTime == 6
\* Configuration files on the command line.
MaxFiles == 2
\* Lines of a docstring.
MaxLines == 4
\* The greatest instances count of an event definition.
MaxInstances == 2
\* The greatest z, in thousandths, normal_hazard is asked about.
MaxZ == 4000

\* --------------------------------------------------- sessionconfig constants
EVENT_AMOD_RECUR == "recurring"
EVENT_AMOD_SINGLE == "singular"
EVENT_PMOD_EXP == "exponential"
EVENT_PMOD_NORM == "normal"
EVENT_PMOD_WEI == "weibull"
EVENT_PMOD_RANDOM == "random"
EVENT_PMOD_DETER == "deterministic"
EVENT_RAND_SLIDE == "sliding"
EVENT_RAND_FIXED == "fixed"

\* SystemComponent states.
OPERABLE == TRUE
NONOPERABLE == FALSE

\* Python's None.
None == -1

\* The defaults get_model_for_event gives to the fields a definition omits.
\* comp and bucket place the event: the component (by position among the
\* active components) and the state whose list holds it.
DefaultEvent ==
    [comp |-> 1, bucket |-> OPERABLE, fault |-> "detonate_node",
     state_trans |-> FALSE, a_model |-> EVENT_AMOD_RECUR, p_model |-> "",
     mttf |-> 1, thrld |-> 0, eff_s |-> -1, eff_e |-> -1, sd |-> 1,
     shape |-> 1, r_range |-> 1, r_w_type |-> EVENT_RAND_FIXED,
     targets |-> <<"node1">>, udf1 |-> "", udf2 |-> "", udf3 |-> "",
     udd |-> None]

\* _validate_event_model: the event definitions a load accepts.
ValidEventModel(e) ==
    /\ e.state_trans \in BOOLEAN
    /\ e.a_model \in {EVENT_AMOD_RECUR, EVENT_AMOD_SINGLE}
    /\ e.p_model \in {EVENT_PMOD_EXP, EVENT_PMOD_NORM, EVENT_PMOD_WEI,
                      EVENT_PMOD_RANDOM, EVENT_PMOD_DETER}
    /\ e.r_w_type \in {EVENT_RAND_SLIDE, EVENT_RAND_FIXED}
    /\ e.mttf \in Int /\ e.mttf > 0
    /\ e.thrld \in Int /\ e.thrld >= 0
    /\ e.eff_s \in Int /\ e.eff_s >= -1
    /\ e.eff_e \in Int /\ e.eff_e >= -1
    /\ e.sd \in Int /\ e.sd > 0
    /\ e.shape \in Int /\ e.shape > 0
    /\ e.r_range \in Int /\ e.r_range > 0

\* ---------------------------------------------------- core/sessionconfig.py
\* A configuration file is [name, opens, decodes, json]: whether open()
\* succeeds, whether json.load() decodes its text, and the decoded object.
\* A JSON object is a record that holds exactly the keys the text gives, a
\* JSON list is a sequence.

\* "key in d", and d[key] with a default, for a JSON object d.
Has(d, key) == key \in DOMAIN d
Get(d, key, default) == IF key \in DOMAIN d THEN d[key] ELSE default

\* How a call ends: it returns a value, or it raises an exception of a type
\* with arguments.
Returned(v) == [raised |-> "none", args |-> <<>>, value |-> v]
Raised(type, args) == [raised |-> type, args |-> args, value |-> None]

\* The least member of a non-empty set of positions: where a loop stops.
First(S) == CHOOSE k \in S : \A j \in S : k <= j

\* The member of a set of one.  {F(v) : v \in {x}} holds F of the value of x.
Only(S) == CHOOSE r \in S : TRUE

\* The first pass of a loop, whose k-th pass ends as results[k], that raises
\* an exception; 0 if none does.
FirstRaised(results) ==
    IF \A k \in 1..Len(results) : results[k].raised = "none" THEN 0
    ELSE First({k \in 1..Len(results) : results[k].raised # "none"})

\* The values the passes of a loop return.
Values(results) ==
    [k \in 1..Len(results) |-> results[k].value]

RECURSIVE Concat(_)
Concat(ss) == IF ss = <<>> THEN <<>> ELSE Head(ss) \o Concat(Tail(ss))

\* SessionConfig.__init__: open the file and decode it.
SessionConfig(f) ==
    IF ~f.opens
    THEN Raised("IOError", <<"No such file or directory", f.name>>)
    ELSE IF ~f.decodes
    THEN Raised("ValueError", <<"No JSON object could be decoded", f.name>>)
    ELSE Returned(f)

get_system_name(config) ==
    IF Has(config.json, "system_name")
    THEN Returned(config.json.system_name)
    ELSE Raised("ValueError", <<"Missing 'system_name' value", config.name>>)

\* s[:-3] if s.endswith('.py') else s, on the module names of the model.
StripPy(s) == IF s = "tutorial.py" THEN "tutorial" ELSE s

get_fault_module_name(config) ==
    IF Has(config.json, "fault_module")
    THEN Returned(StripPy(config.json.fault_module))
    ELSE Raised("ValueError", <<"Missing 'fault_module' value", config.name>>)

\* The body of get_active_components' loop for one component: the message of
\* the ValueError it raises, "" if it raises none.
ComponentFaultNoTargetsCheck(c) ==
    IF ~Has(c, "id") THEN "Missing 'id' value in 'components' List"
    ELSE IF ~Has(c, "targets") THEN "Missing 'targets' value in 'components' List"
    ELSE IF ~Has(c, "active") THEN "Missing 'active' value in 'components' List"
    ELSE ""

ComponentFault(c) ==
    IF ~Has(c, "id") THEN "Missing 'id' value in 'components' List"
    ELSE IF ~Has(c, "targets") THEN "Missing 'targets' value in 'components' List"
    ELSE IF ~Has(c, "active") THEN "Missing 'active' value in 'components' List"
    ELSE IF c.active /\ c.targets = <<>>
    THEN "Invalid 'targets' value (empty List)"
    ELSE ""

\* get_active_components: the (id, targets) tuples of the active components.
get_active_components(config) ==
    IF ~Has(config.json, "components")
    THEN Raised("ValueError", <<"Missing 'components' value", config.name>>)
    ELSE LET cs == config.json.components
             bad == {k \in 1..Len(cs) : ComponentFault(cs[k]) # ""}
             act == SelectSeq(cs, LAMBDA c : c.active)
         IN  IF bad # {}
             THEN Raised("ValueError",
                         <<ComponentFault(cs[First(bad)]), config.name>>)
             ELSE Returned([k \in 1..Len(act) |->
                               <<act[k].id, act[k].targets>>])

EventType(operable) ==
    IF operable THEN "operable_events" ELSE "nonoperable_events"

\* The event definitions get_events_for_component visits, in order: those of
\* the list of the asked type of every component with the id, if declared.
DeclaredEvents(config, component_id, event_type) ==
    LET cs == SelectSeq(config.json.components,
                        LAMBDA c : c.id = component_id /\ Has(c, event_type))
    IN  Concat([k \in 1..Len(cs) |-> cs[k][event_type]])

\* The body of get_events_for_component's loop for one definition: the
\* message of the ValueError it raises, "" if it raises none.
InstancesFault(e) ==
    IF ~Has(e, "id") THEN "Missing 'id' value for event"
    ELSE IF Get(e, "instances", 1) < 0 THEN "Invalid 'instances' value"
    ELSE ""

\* get_events_for_component: the (id, instances) tuples of a component's
\* operable or nonoperable events.
get_events_for_component(config, component_id, operable) ==
    LET es == DeclaredEvents(config, component_id, EventType(operable))
        bad == {k \in 1..Len(es) : InstancesFault(es[k]) # ""}
    IN  IF bad # {}
        THEN Raised("ValueError",
                    <<InstancesFault(es[First(bad)]), config.name>>)
        ELSE Returned([k \in 1..Len(es) |->
                          <<es[k].id, Get(es[k], "instances", 1)>>])

\* The definitions of a list that carry the id, in order.
WithId(es, event_id) ==
    SelectSeq(es, LAMBDA e : Has(e, "id") /\ e.id = event_id)

\* _get_event_config_for_component: the first definition with the id in the
\* operable, then the nonoperable list of a component with the component id.
\* Both lists are indexed without a test that the component declares them.
\* The value is <<e>> for the definition e found and <<>> for None.
RECURSIVE event_config_in(_, _, _)
event_config_in(cs, component_id, event_id) ==
    IF cs = <<>> THEN Returned(<<>>)
    ELSE LET c == Head(cs) IN
         IF c.id # component_id
         THEN event_config_in(Tail(cs), component_id, event_id)
         ELSE IF ~Has(c, "operable_events")
         THEN Raised("KeyError", <<"operable_events">>)
         ELSE IF WithId(c.operable_events, event_id) # <<>>
         THEN Returned(<<Head(WithId(c.operable_events, event_id))>>)
         ELSE IF ~Has(c, "nonoperable_events")
         THEN Raised("KeyError", <<"nonoperable_events">>)
         ELSE IF WithId(c.nonoperable_events, event_id) # <<>>
         THEN Returned(<<Head(WithId(c.nonoperable_events, event_id))>>)
         ELSE event_config_in(Tail(cs), component_id, event_id)

get_event_config_for_component(config, component_id, event_id) ==
    event_config_in(config.json.components, component_id, event_id)

\* The namedtuple get_model_for_event builds from a definition that has
\* fault and a_model.
ModelType(e) ==
    [fault |-> e.fault,
     state_trans |-> Get(e, "state_transition", FALSE),
     a_model |-> e.a_model,
     p_model |-> Get(e, "p_model", ""),
     mttf |-> Get(e, "mttf", 1),
     thrld |-> Get(e, "threshold", 0),
     eff_s |-> Get(e, "effective_start", -1),
     eff_e |-> Get(e, "effective_end", -1),
     sd |-> Get(e, "standard_deviation", 1),
     shape |-> Get(e, "shape", 1),
     r_range |-> Get(e, "random_range", 1),
     r_w_type |-> Get(e, "random_window_type", EVENT_RAND_FIXED),
     udf1 |-> Get(e, "udf1", ""),
     udf2 |-> Get(e, "udf2", ""),
     udf3 |-> Get(e, "udf3", ""),
     udd |-> Get(e, "udd", None)]

\* The tests of get_model_for_event on the definition found, None as <<>>.
model_for(found, config) ==
    IF found = <<>>
    THEN Raised("ValueError",
                <<"Event must be mapped to type Dictionary", config.name>>)
    ELSE IF ~Has(found[1], "fault")
    THEN Raised("ValueError",
                <<"Missing 'fault' value for event", config.name>>)
    ELSE IF ~Has(found[1], "a_model")
    THEN Raised("ValueError",
                <<"Missing 'a_model' value for event", config.name>>)
    ELSE Only({IF ~ValidEventModel(event)
               THEN Raised("ValueError", <<"Invalid value", config.name>>)
               ELSE Returned(event) :
                  event \in {ModelType(found[1])}})

\* get_model_for_event: the validated attributes of one event.
get_model_for_event(config, component_id, event_id) ==
    Only({IF got.raised # "none" THEN got
          ELSE model_for(got.value, config) :
             got \in {get_event_config_for_component(config, component_id,
                                                     event_id)}})

\* ----------------------------------------------------------- construction
\* Event.__init__: the attributes an event keeps, with the component (by
\* position among the active components) and the bucket that hold it.
Event(comp, bucket, targets, event_config) ==
    [comp |-> comp, bucket |-> bucket, targets |-> targets,
     fault |-> event_config.fault, state_trans |-> event_config.state_trans,
     a_model |-> event_config.a_model, p_model |-> event_config.p_model,
     mttf |-> event_config.mttf, thrld |-> event_config.thrld,
     eff_s |-> event_config.eff_s, eff_e |-> event_config.eff_e,
     sd |-> event_config.sd, shape |-> event_config.shape,
     r_range |-> event_config.r_range, r_w_type |-> event_config.r_w_type,
     udf1 |-> event_config.udf1, udf2 |-> event_config.udf2,
     udf3 |-> event_config.udf3, udd |-> event_config.udd]

\* for _ in range(e[1]): the event ids, each as often as its instances.
RECURSIVE Instances(_)
Instances(tuples) ==
    IF tuples = <<>> THEN <<>>
    ELSE [k \in 1..Head(tuples)[2] |-> Head(tuples)[1]]
         \o Instances(Tail(tuples))

\* The Event(...) calls of one loop of SystemComponent.__init__, for the
\* event ids in the order of construction.
events_of(ids, config, comp, component_id, targets, operable) ==
    Only({IF FirstRaised(models) # 0 THEN models[FirstRaised(models)]
          ELSE Returned([k \in 1..Len(models) |->
                            Event(comp, operable, targets, models[k].value)]) :
             models \in {[k \in 1..Len(ids) |->
                            get_model_for_event(config, component_id,
                                                ids[k])]}})

\* One of the two loops of SystemComponent.__init__: the events of a bucket.
BucketEvents(config, comp, component_id, targets, operable) ==
    Only({IF got.raised # "none" THEN got
          ELSE Only({events_of(ids, config, comp, component_id, targets,
                               operable) :
                        ids \in {Instances(got.value)}}) :
             got \in {get_events_for_component(config, component_id,
                                               operable)}})

\* SystemComponent.__init__: the operable events, then the nonoperable ones.
SystemComponent(comp, component_id, targets, config) ==
    Only({IF FirstRaised(buckets) # 0 THEN buckets[FirstRaised(buckets)]
          ELSE Returned([id |-> component_id, targets |-> targets,
                         events |-> buckets[1].value \o buckets[2].value]) :
             buckets \in {[b \in 1..2 |->
                             BucketEvents(config, comp, component_id, targets,
                                          IF b = 1 THEN OPERABLE
                                          ELSE NONOPERABLE)]}})

\* The list comprehension of SystemUnderTest.__init__, for the tuples of
\* the active components.
components_of(active, config) ==
    Only({IF FirstRaised(made) # 0 THEN made[FirstRaised(made)]
          ELSE Returned(Values(made)) :
             made \in {[k \in 1..Len(active) |->
                          SystemComponent(k, active[k][1], active[k][2],
                                          config)]}})

\* SystemUnderTest.__init__ once the file is decoded.  The value lists the
\* components and, in SUT order, the events of all of them.
sut_of(config) ==
    Only({IF name.raised # "none" THEN name
          ELSE IF module.raised # "none" THEN module
          ELSE IF active.raised # "none" THEN active
          ELSE Only({IF made.raised # "none" THEN made
                     ELSE Returned(
                         [system_name |-> name.value,
                          fault_module_name |-> module.value,
                          components |->
                              [k \in 1..Len(made.value) |->
                                  [id |-> made.value[k].id,
                                   targets |-> made.value[k].targets]],
                          config |->
                              Concat([k \in 1..Len(made.value) |->
                                         made.value[k].events])]) :
                        made \in {components_of(active.value, config)}}) :
             name \in {get_system_name(config)},
             module \in {get_fault_module_name(config)},
             active \in {get_active_components(config)}})

\* SystemUnderTest.__init__.
SystemUnderTest(f) ==
    Only({IF loaded.raised # "none" THEN loaded ELSE sut_of(loaded.value) :
             loaded \in {SessionConfig(f)}})

\* The modules of the event package (src/event).
FAULT_PKG == {"tutorial", "mgc"}

\* Scheduler.__init__: the SUT, then the fault injector module.
Scheduler(f, dry) ==
    Only({IF sut.raised # "none" THEN sut
          ELSE IF sut.value.fault_module_name \notin FAULT_PKG
          THEN Raised("ImportError",
                      <<"Fault injector module could not be interpreted">>)
          ELSE Returned([sut |-> sut.value, dryrun |-> dry]) :
             sut \in {SystemUnderTest(f)}})

\* ------------------------------------------------------- the action module
\* The names the SUT's fault module binds: a function, and a module-level
\* value that is not callable.  Any other name is not an attribute.
FaultModule ==
    [detonate_node |-> [callable |-> TRUE, name |-> "detonate_node"],
     logging |-> [callable |-> FALSE, name |-> "logging"]]

\* The fault names the event definitions of the model draw from.
FaultNames == {"detonate_node", "logging", "no_such_fault"}

\* An event definition with the fields the models vary.
EventAt(c, b, fault, st, am, pm, mttf, th, es, ee) ==
    [DefaultEvent EXCEPT !.comp = c, !.bucket = b, !.fault = fault,
                         !.state_trans = st, !.a_model = am, !.p_model = pm,
                         !.mttf = mttf, !.thrld = th, !.eff_s = es,
                         !.eff_e = ee]

\* One component whose operable bucket holds a single event that is singular,
\* deterministic, without threshold, and a state transition; its nonoperable
\* bucket is empty or holds one event that brings the component back.
SingularScenario ==
    {<<EventAt(1, OPERABLE, f, TRUE, EVENT_AMOD_SINGLE, EVENT_PMOD_DETER,
               1, 0, -1, -1)>> : f \in {"detonate_node", "no_such_fault"}}
    \cup
    {<<EventAt(1, OPERABLE, "detonate_node", TRUE, EVENT_AMOD_SINGLE,
               EVENT_PMOD_DETER, 1, 0, -1, -1),
       EventAt(1, NONOPERABLE, f, TRUE, EVENT_AMOD_RECUR, EVENT_PMOD_DETER,
               1, 1, -1, -1)>> : f \in {"detonate_node", "logging"}}

\* One component whose only event is recurring and deterministic with
\* threshold 3.
ThresholdScenario ==
    {<<EventAt(1, OPERABLE, "detonate_node", FALSE, EVENT_AMOD_RECUR,
               EVENT_PMOD_DETER, 1, 3, -1, -1)>>}

\* One component whose only event is deterministic with the effective
\* window [2, 5] and no threshold.
WindowScenario ==
    {<<EventAt(1, OPERABLE, "detonate_node", FALSE, am,
               EVENT_PMOD_DETER, 1, 0, 2, 5)>> :
        am \in {EVENT_AMOD_RECUR, EVENT_AMOD_SINGLE}}

\* One component whose only event has the random model with threshold 1,
\* random_range 10 and a fixed window.
RandomScenario ==
    {<<[EventAt(1, OPERABLE, "detonate_node", FALSE, EVENT_AMOD_RECUR,
                EVENT_PMOD_RANDOM, 1, 1, -1, -1)
          EXCEPT !.r_range = 10, !.r_w_type = EVENT_RAND_FIXED]>>}

\* One component with two targets whose only event is recurring and
\* deterministic with threshold 2 and carries user-defined values.
TargetsScenario ==
    {<<[EventAt(1, OPERABLE, "detonate_node", FALSE, EVENT_AMOD_RECUR,
                EVENT_PMOD_DETER, 1, 2, -1, -1)
          EXCEPT !.targets = <<"node1", "node2">>, !.udf1 = "5",
                 !.udf2 = "b", !.udf3 = "c", !.udd = [volts |-> 9]]>>}

\* One component whose operable bucket holds a state-transition event, a
\* second event that is one or not, and an event that is none, all recurring
\* and deterministic without threshold; its nonoperable bucket holds one
\* state-transition event with threshold 1.
TogglesScenario ==
    {<<EventAt(1, OPERABLE, "detonate_node", TRUE, EVENT_AMOD_RECUR,
               EVENT_PMOD_DETER, 1, 0, -1, -1),
       EventAt(1, OPERABLE, "no_such_fault", st, EVENT_AMOD_RECUR,
               EVENT_PMOD_DETER, 1, 0, -1, -1),
       EventAt(1, OPERABLE, "no_such_fault", FALSE, EVENT_AMOD_RECUR,
               EVENT_PMOD_DETER, 1, 0, -1, -1),
       EventAt(1, NONOPERABLE, "detonate_node", TRUE, EVENT_AMOD_RECUR,
               EVENT_PMOD_DETER, 1, 1, -1, -1)>> : st \in BOOLEAN}

ScenarioConfigs ==
    SingularScenario \cup ThresholdScenario \cup WindowScenario
    \cup RandomScenario \cup TargetsScenario \cup TogglesScenario

VARIABLES
    config,          \* Seq of event definitions, in SUT order (load result)
    dryrun,          \* Scheduler._dryrun
    now,             \* the wall clock, time()
    components,      \* per component: _state, _life_start_time, _last_event_time
    events,          \* per event: _executed, _random_time, _window_end, _random_time_set
    pc,              \* where the scheduler thread stands in run()
    stop,            \* Scheduler._stop (threading.Event)
    jobs,            \* run()'s list of worker threads: the event and is_alive()
    untracked,       \* live worker threads that run()'s list no longer holds
    fired,           \* the events of this tick's checkpoint not yet dispatched
    join_idx,        \* the drain's position in jobs
    function_cache,  \* Scheduler._function_cache
    error,           \* the exception that ended run(), "none" if none
    log,             \* the scheduler thread's latest log record
    calls,           \* the is_active calls of the latest checkpoint, with results
    nfired,          \* per event: how often is_active returned true (0, 1, many)
    stop_seen,       \* the stop test has run with the flag set
    ticks,           \* how many checkpoints run() has made
    last_fire,       \* per event: the clock when is_active last returned true
    session_config_file, \* main(): the files of the command line
    schedulers,      \* main(): the schedulers constructed so far
    main_pc,         \* where main() stands
    started,         \* how many scheduler threads main() has started
    exit_status,     \* the status the process exited with, None while it runs
    main_error,      \* the exception that ended main(), NoError if none
    z_search,        \* a call of normal_hazard: its arguments and what the
                     \* table search and the hazard returned
    parse            \* a call of parse_fault: the callable and what it returned

run_vars == <<config, dryrun, now, components, events, pc, stop, jobs,
              untracked, fired, join_idx, function_cache, error, log, calls,
              nfired, stop_seen, ticks, last_fire>>

main_vars == <<session_config_file, schedulers, main_pc, started, exit_status,
               main_error>>

vars == <<run_vars, main_vars, z_search, parse>>

Range(s) == {s[k] : k \in 1..Len(s)}

NumEvents == Len(config)
NumComponents == IF config = <<>> THEN 0
                 ELSE config[Len(config)].comp

\* ------------------------------------------------------ core/stochastic.py
\* "the sample u is <= num/den", for den > 0 and num >= 0: the sample 0.0
\* is below every probability, the largest sample only below those >= 1.
SampleLE(u, num, den) ==
    IF u = 0 THEN num >= 0 ELSE num >= den

RECURSIVE Pow(_, _)
Pow(b, n) == IF n = 0 THEN 1 ELSE b * Pow(b, n - 1)

\* exponential_hazard: random() <= 1.0 / mttf.
exponential_hazard(mttf, u) ==
    SampleLE(u, 1, mttf)

\* weibull_hazard: random() <= a * (1/mttf)^a * t^(a-1), for a whole shape a.
weibull_hazard(a, mttf, t, u) ==
    SampleLE(u, a * Pow(t, a - 1), Pow(mttf, a))

\* The Standard Normal table as <<area * 10000, z * 1000>>, in source order.
Z_TABLE_LEN == 107
Z_TABLE ==
    <<<<1, -3719>>, <<50, -2576>>, <<10, -3090>>, <<100, -2326>>,
      <<200, -2054>>, <<250, -1960>>, <<300, -1881>>, <<400, -1751>>,
      <<500, -1645>>, <<600, -1555>>, <<700, -1476>>, <<800, -1405>>,
      <<900, -1341>>, <<1000, -1282>>, <<1100, -1227>>,
      <<1200, -1175>>, <<1300, -1126>>, <<1400, -1080>>,
      <<1500, -1036>>, <<1600, -994>>, <<1700, -954>>, <<1800, -915>>,
      <<1900, -878>>, <<2000, -842>>, <<2100, -806>>, <<2200, -772>>,
      <<2300, -739>>, <<2400, -706>>, <<2500, -674>>, <<2600, -643>>,
      <<2700, -613>>, <<2800, -583>>, <<2900, -553>>, <<3000, -524>>,
      <<3100, -496>>, <<3200, -468>>, <<3300, -440>>, <<3400, -412>>,
      <<3500, -385>>, <<3600, -358>>, <<3700, -332>>, <<3800, -305>>,
      <<3900, -279>>, <<4000, -253>>, <<4100, -228>>, <<4200, -202>>,
      <<4300, -176>>, <<4400, -151>>, <<4500, -126>>, <<4600, -100>>,
      <<4700, -75>>, <<4800, -50>>, <<4900, -25>>, <<5000, 0>>,
      <<5100, 25>>, <<5200, 50>>, <<5300, 75>>, <<5400, 100>>,
      <<5500, 126>>, <<5600, 151>>, <<5700, 176>>, <<5800, 202>>,
      <<5900, 228>>, <<6000, 253>>, <<6100, 279>>, <<6200, 305>>,
      <<6300, 332>>, <<6400, 358>>, <<6500, 385>>, <<6600, 412>>,
      <<6700, 440>>, <<6800, 468>>, <<6900, 496>>, <<7000, 524>>,
      <<7100, 553>>, <<7200, 583>>, <<7300, 613>>, <<7400, 643>>,
      <<7500, 674>>, <<7600, 706>>, <<7700, 739>>, <<7800, 772>>,
      <<7900, 806>>, <<8000, 842>>, <<8100, 878>>, <<8200, 915>>,
      <<8300, 954>>, <<8400, 994>>, <<8500, 1036>>, <<8600, 1080>>,
      <<8700, 1126>>, <<8800, 1175>>, <<8900, 1227>>, <<9000, 1282>>,
      <<9100, 1341>>, <<9200, 1405>>, <<9300, 1476>>, <<9400, 1555>>,
      <<9500, 1645>>, <<9600, 1751>>, <<9700, 1881>>, <<9750, 1960>>,
      <<9800, 2054>>, <<9900, 2326>>, <<9990, 3090>>, <<9995, 3290>>,
      <<9999, 3719>>>>

\* _z_table_search for z_in = num / den (den > 0); rows are numbered from 1.
\* Z_TABLE[m].z <= z_in is Z_TABLE[m][2] * den <= num * 1000.
RECURSIVE z_table_search_loop(_, _, _, _)
z_table_search_loop(l, u, num, den) ==
    IF l > u THEN None
    ELSE LET m == (l + u) \div 2
         IN IF /\ Z_TABLE[m + 1][2] * den <= num * 1000
               /\ Z_TABLE[m + 2][2] * den > num * 1000
            THEN Z_TABLE[m + 1][1]
            ELSE IF Z_TABLE[m + 1][2] * den > num * 1000
                 THEN z_table_search_loop(l, m - 1, num, den)
                 ELSE z_table_search_loop(m + 1, u, num, den)

z_table_search(num, den) ==
    z_table_search_loop(0, Z_TABLE_LEN - 2, num, den)

\* normal_hazard: not fired when the search finds no row; otherwise
\* random() <= f(t) / (1 - F).  The quotient is positive, so the sample 0.0
\* fires; it is not computed here, and the largest sample is taken not to
\* fire (the model allows both outcomes wherever the search finds a row).
normal_hazard(mu, sigma, t, u) ==
    IF z_table_search(t - mu, sigma) = None THEN FALSE
    ELSE u = 0

\* No call of normal_hazard is under way.
NoSearch ==
    [mu |-> 0, sigma |-> 1, t |-> 0, searched |-> FALSE, area |-> None,
     asked |-> FALSE, fired |-> FALSE]

\* The calls of normal_hazard looked at: sigma is 1000 and mu is MaxZ, so
\* that z_in = (t - mu) / sigma is t - MaxZ thousandths; t makes z_in each
\* tabulated z, its two neighbours, and the two ends -MaxZ and MaxZ
\* thousandths.
ZSearches ==
    {[NoSearch EXCEPT !.mu = MaxZ, !.sigma = 1000, !.t = MaxZ + z] :
        z \in {Z_TABLE[m][2] + d : m \in 1..Z_TABLE_LEN, d \in {-1, 0, 1}}
              \cup {-MaxZ, MaxZ}}

\* z = _z_table_search((t-mu)/float(sigma)).
Search ==
    /\ ~z_search.searched
    /\ z_search' = [z_search EXCEPT
                       !.searched = TRUE,
                       !.area = z_table_search(z_search.t - z_search.mu,
                                               z_search.sigma)]
    /\ UNCHANGED <<run_vars, main_vars, parse>>

\* normal_hazard(mu, sigma, t), for either sample.
Hazard ==
    /\ ~z_search.asked
    /\ \E u \in {0, 1} :
          z_search' = [z_search EXCEPT
                          !.asked = TRUE,
                          !.fired = normal_hazard(z_search.mu, z_search.sigma,
                                                  z_search.t, u)]
    /\ UNCHANGED <<run_vars, main_vars, parse>>

ZNext ==
    \/ Search
    \/ Hazard

\* ----------------------------------------------------- core/eventparser.py
\* A line of a docstring is a sequence of one-character strings.
WordChars == {"f", "a", "u", "l", "t", "b", "1", "2", "_"}

\* \s and \w of the regular expressions, and the characters strip() removes.
IsSpace(c) == c = " "
IsWord(c) == c \in WordChars

RECURSIVE lstrip(_)
lstrip(line) ==
    IF line # <<>> /\ IsSpace(Head(line)) THEN lstrip(Tail(line)) ELSE line

RECURSIVE rstrip(_)
rstrip(line) ==
    IF line # <<>> /\ IsSpace(line[Len(line)])
    THEN rstrip(SubSeq(line, 1, Len(line) - 1))
    ELSE line

\* line.strip()
strip(line) ==
    rstrip(lstrip(line))

\* Where \s* ends when it starts at position i of line.
RECURSIVE SkipSpaces(_, _)
SkipSpaces(line, i) ==
    IF i <= Len(line) /\ IsSpace(line[i]) THEN SkipSpaces(line, i + 1) ELSE i

\* Where \w+ ends when it starts at position i of line (i if no word
\* character stands there).
RECURSIVE SkipWord(_, _)
SkipWord(line, i) ==
    IF i <= Len(line) /\ IsWord(line[i]) THEN SkipWord(line, i + 1) ELSE i

\* line has the character c at position i.
At(line, i, c) ==
    i <= Len(line) /\ line[i] = c

\* The word of the tags.
FaultWord == <<"f", "a", "u", "l", "t">>

\* TAG_RE.match(line): ^\[\s*/?fault\s*\]$
TAG_RE(line) ==
    /\ At(line, 1, "[")
    /\ \E j \in {SkipSpaces(line, 2)} :
       \E k \in {IF At(line, j, "/") THEN j + 1 ELSE j} :
          /\ k + 4 <= Len(line)
          /\ SubSeq(line, k, k + 4) = FaultWord
          /\ \E m \in {SkipSpaces(line, k + 5)} :
                At(line, m, "]") /\ m = Len(line)

\* KEY_VALUE_RE.match(line): ^(?P<key>\w+)\s*=\s*(?P<value>.*)$, with the
\* groups of a match.
KEY_VALUE_RE(line) ==
    Only({IF n > 1 /\ At(line, SkipSpaces(line, n), "=")
          THEN [matched |-> TRUE, key |-> SubSeq(line, 1, n - 1),
                value |-> SubSeq(line,
                                 SkipSpaces(line, SkipSpaces(line, n) + 1),
                                 Len(line))]
          ELSE [matched |-> FALSE, key |-> <<>>, value |-> <<>>] :
             n \in {SkipWord(line, 1)}})

\* key_values[key] = value
SetItem(d, key, value) ==
    [k \in DOMAIN d \cup {key} |-> IF k = key THEN value ELSE d[k]]

RECURSIVE parse_lines(_, _, _)

\* The for loop of parse_fault over the lines left, with reading_faults and
\* key_values as the passes before left them.
parse_lines(lines, reading_faults, key_values) ==
    IF lines = <<>> THEN key_values
    ELSE Only({
        IF line = <<>> THEN parse_lines(Tail(lines), reading_faults, key_values)
        ELSE IF TAG_RE(line) /\ reading_faults
        THEN key_values  \* break
        ELSE IF TAG_RE(line) \/ reading_faults
        THEN Only({parse_lines(Tail(lines), TRUE,
                               IF kv.matched
                               THEN SetItem(key_values, kv.key, kv.value)
                               ELSE key_values) :
                      kv \in {KEY_VALUE_RE(line)}})
        ELSE parse_lines(Tail(lines), FALSE, key_values) :
           line \in {strip(Head(lines))}})

\* The empty dictionary.
NoKeyValues == [k \in {} |-> <<>>]

\* parse_fault(func): func.has_doc tells whether inspect.getdoc gives a
\* docstring, func.doc holds its lines (config.splitlines()).
parse_fault(func) ==
    IF ~func.has_doc THEN NoKeyValues
    ELSE parse_lines(func.doc, FALSE, NoKeyValues)

\* The lines the docstrings are made of: "", " [ fault ] ", "[fault]",
\* "[/fault]", "a=1", " a = 2", "b =1 ", "a b" and "[fault]a=1".
DocLines ==
    {<<>>,
     <<" ", "[", " ">> \o FaultWord \o <<" ", "]", " ">>,
     <<"[">> \o FaultWord \o <<"]">>,
     <<"[", "/">> \o FaultWord \o <<"]">>,
     <<"a", "=", "1">>,
     <<" ", "a", " ", "=", " ", "2">>,
     <<"b", " ", "=", "1", " ">>,
     <<"a", " ", "b">>,
     <<"[">> \o FaultWord \o <<"]", "a", "=", "1">>}

RECURSIVE DocsOf(_)
DocsOf(n) ==
    IF n = 0 THEN {<<>>}
    ELSE {<<>>} \cup {<<l>> \o d : l \in DocLines, d \in DocsOf(n - 1)}

\* The callables parse_fault may be given: without a docstring, and with
\* one of up to MaxLines lines.
Funcs ==
    {[has_doc |-> FALSE, doc |-> <<>>]}
    \cup {[has_doc |-> TRUE, doc |-> d] : d \in DocsOf(MaxLines)}

\* No call of parse_fault made yet.
NoParse == [func |-> [has_doc |-> FALSE, doc |-> <<>>], called |-> FALSE,
            key_values |-> NoKeyValues]

\* A call of parse_fault.
ParseFault ==
    /\ ~parse.called
    /\ parse' = [parse EXCEPT !.called = TRUE,
                              !.key_values = parse_fault(parse.func)]
    /\ UNCHANGED <<run_vars, main_vars, z_search>>

\* ----------------------------------------------------------- core/event.py
\* An event constructed as already executed.
NewEventExecuted(t) ==
    [executed |-> TRUE, random_time |-> 0, window_end |-> t,
     random_time_set |-> FALSE]

\* Event.__init__: the runtime fields of an event constructed at time t.
NewEvent(t) ==
    [executed |-> FALSE, random_time |-> 0, window_end |-> t,
     random_time_set |-> FALSE]

is_singular_event(e) ==
    e.a_model = EVENT_AMOD_SINGLE

\* The names event.py binds at import: SessionConfig is one of them,
\* SystemConfigFile, which is_active reads for the window type, is not.
SystemConfigFileDefined == FALSE

\* A call of is_active that leaves a fire time armed however it ends.
ResultArmed(active, raised, rt) ==
    [active |-> active, raised |-> raised,
     rt |-> [rt EXCEPT !.random_time_set = TRUE]]

\* What a call of is_active gives: its return value, the exception it
\* raised instead ("none" if it returned) and the event's fields after it.
Result(active, raised, rt) ==
    [active |-> active, raised |-> raised, rt |-> rt]

\* The gate testing for the other activation model.
SingularGateWrongModel(e, rt) ==
    rt.executed /\ ~is_singular_event(e)

\* is_active, first gate: an executed singular event is never active.
SingularGate(e, rt) ==
    rt.executed /\ is_singular_event(e)

\* The window without its lower end.
EffectiveGateNoStart(e, elapsed_life) ==
    IF e.eff_s > -1
    THEN e.eff_e = -1 \/ elapsed_life <= e.eff_e
    ELSE TRUE

\* The window without its upper end.
EffectiveGateNoEnd(e, elapsed_life) ==
    IF e.eff_s > -1
    THEN elapsed_life >= e.eff_s
    ELSE TRUE

\* is_active, the effective window: tested only when effective_start > -1.
EffectiveGate(e, elapsed_life) ==
    IF e.eff_s > -1
    THEN /\ elapsed_life >= e.eff_s
         /\ (e.eff_e = -1 \/ elapsed_life <= e.eff_e)
    ELSE TRUE

\* The threshold taken one second early.
ThresholdGateEarly(e, elapsed_time) ==
    elapsed_time + 1 >= e.thrld

\* The threshold as a strict bound.
ThresholdGateStrict(e, elapsed_time) ==
    elapsed_time > e.thrld

\* is_active, the threshold on the time since the last event.
ThresholdGate(e, elapsed_time) ==
    elapsed_time >= e.thrld

\* is_active, the random model.  r is what randint(threshold, random_range)
\* returns; randint raises ValueError on an empty range.
random_model(e, rt, current_time, r) ==
    IF ~rt.random_time_set /\ current_time > rt.window_end
    THEN IF e.thrld > e.r_range
         THEN Result(FALSE, "ValueError", rt)
         ELSE LET timed == [rt EXCEPT !.random_time = rt.window_end + r]
              IN IF ~SystemConfigFileDefined
                 THEN Result(FALSE, "NameError", timed)
                 ELSE Result(FALSE, "none",
                        [timed EXCEPT
                           !.window_end =
                              IF e.r_w_type = EVENT_RAND_FIXED
                              THEN current_time + e.r_range
                              ELSE timed.random_time,
                           !.random_time_set = TRUE])
    ELSE IF rt.random_time_set /\ current_time >= rt.random_time
         THEN Result(TRUE, "none", [rt EXCEPT !.random_time_set = FALSE])
         ELSE Result(FALSE, "none", rt)

\* The values randint(threshold, random_range) can return for e (one
\* stand-in when the range is empty, where randint raises before returning).
RandInts(e) ==
    IF e.thrld > e.r_range THEN {0} ELSE e.thrld..e.r_range

\* Event.is_active at clock reading t, with sample u and randint value r.
is_active(e, rt, t, alive_time, last_event_time, u, r) ==
    LET elapsed_life == t - alive_time
        elapsed_time == t - last_event_time
    IN IF SingularGate(e, rt) THEN Result(FALSE, "none", rt)
       ELSE IF ~(EffectiveGate(e, elapsed_life)
                 /\ ThresholdGate(e, elapsed_time))
            THEN Result(FALSE, "none", rt)
       ELSE IF e.p_model = EVENT_PMOD_DETER THEN Result(TRUE, "none", rt)
       ELSE IF e.p_model = EVENT_PMOD_EXP
            THEN Result(exponential_hazard(e.mttf, u), "none", rt)
       ELSE IF e.p_model = EVENT_PMOD_NORM
            THEN Result(normal_hazard(e.mttf, e.sd, elapsed_time, u),
                        "none", rt)
       ELSE IF e.p_model = EVENT_PMOD_WEI
            THEN Result(weibull_hazard(e.shape, e.mttf, elapsed_time, u),
                        "none", rt)
       ELSE IF e.p_model = EVENT_PMOD_RANDOM
            THEN random_model(e, rt, t, r)
       ELSE Result(FALSE, "none", rt)

\* --------------------------------------------------- core/systemcomponent.py
\* SystemComponent.__init__ at time t: Operable, both times the clock.
NewComponent(t) ==
    [state |-> OPERABLE, life_start_time |-> t, last_event_time |-> t]

\* Every fired event taken for a transition event.
is_state_transition_event_always(e) ==
    TRUE

is_state_transition_event(e) ==
    e.state_trans

EventIds == [i \in 1..NumEvents |-> i]

\* A checkpoint that goes through both lists of component c.
BucketOfBoth(c, s) ==
    SelectSeq(EventIds, LAMBDA i : config[i].comp = c)

\* self._events[s] of component c: its events of state s, in list order.
BucketOf(c, s) ==
    SelectSeq(EventIds, LAMBDA i : config[i].comp = c /\ config[i].bucket = s)

\* The clock itself passed where the time of the last event belongs.
passed_clock(c) ==
    now

\* The last_event_time argument of every is_active call of one checkpoint of
\* component c: the list comprehension ends before the field is assigned.
passed_last_event_time(c) ==
    components[c].last_event_time

\* The is_active call checkpoint makes for event i; ch[i] holds the sample
\* and the randint value the call draws.
Call(i, ch) ==
    is_active(config[i], events[i], now,
              components[config[i].comp].life_start_time,
              passed_last_event_time(config[i].comp),
              ch[i].u, ch[i].r)

\* What each event's call gives at this clock reading (used only for the
\* events whose calls are made).
CallResults(ch) ==
    [i \in 1..NumEvents |-> Call(i, ch)]

\* Position in list L of the first call that raises, 0 if none does.
RaisePos(L, results) ==
    LET raising == {k \in 1..Len(L) : results[L[k]].raised # "none"}
    IN IF raising = {} THEN 0
       ELSE CHOOSE k \in raising : \A k2 \in raising : k <= k2

\* A transition event that sets the component Nonoperable, whatever its state.
fire_event_nonoperable(comp, e) ==
    [comp EXCEPT !.last_event_time = now,
                 !.state = IF is_state_transition_event(e)
                           THEN NONOPERABLE ELSE @]

\* One pass of checkpoint's second loop: the event is marked by the caller;
\* the component takes the time and, for a transition event, the other state.
fire_event(comp, e) ==
    [comp EXCEPT !.last_event_time = now,
                 !.state = IF is_state_transition_event(e) THEN ~@ ELSE @]

RECURSIVE apply_events(_, _)
apply_events(comp, evs) ==
    IF evs = <<>> THEN comp
    ELSE apply_events(fire_event(comp, config[Head(evs)]), Tail(evs))

\* A checkpoint that takes the time whether or not an event is active.
checkpoint_returns_stamped(c, L, active_events) ==
    [raised |-> "none", made |-> L, active_events |-> active_events,
     comp |-> [apply_events(components[c], active_events)
                 EXCEPT !.last_event_time = now]]

\* checkpoint once the list comprehension has given active_events.
checkpoint_returns(c, L, active_events) ==
    [raised |-> "none", made |-> L, active_events |-> active_events,
     comp |-> apply_events(components[c], active_events)]

\* checkpoint over the list L when the call at position k raises (k = 0:
\* none does).  A call that raises ends the list comprehension: nothing is
\* marked or returned, and the component is left as it was.
checkpoint_over(c, L, k, results) ==
    IF k # 0
    THEN [raised |-> results[L[k]].raised, made |-> SubSeq(L, 1, k),
          active_events |-> <<>>, comp |-> components[c]]
    ELSE checkpoint_returns(c, L,
                            SelectSeq(L, LAMBDA i : results[i].active))

checkpoint_list(c, L, results) ==
    checkpoint_over(c, L, RaisePos(L, results), results)

\* SystemComponent.checkpoint of component c: the exception that ended it,
\* the calls it made, the list it returns and the component afterwards.
component_checkpoint(c, results) ==
    checkpoint_list(c, BucketOf(c, components[c].state), results)

\* --------------------------------------------------- core/systemundertest.py
\* The components' lists joined last component first.
RECURSIVE extend_events_reversed(_, _)
extend_events_reversed(res, c) ==
    IF c = 0 THEN <<>>
    ELSE res[c].active_events \o extend_events_reversed(res, c - 1)

\* events.extend(active_events) for the components 1..c, in that order.
RECURSIVE extend_events(_, _)
extend_events(res, c) ==
    IF c = 0 THEN <<>>
    ELSE extend_events(res, c - 1) \o res[c].active_events

\* One is_active call as the checkpoint made it: the event, the ordinal of
\* the checkpoint, the two elapsed times the call computed, the time since
\* the event last fired (-1: it has not), whether a fire time was armed,
\* whether it had been reached, and whether the event was marked executed
\* when the call began, and how the call ended.
CallRecord(i, c, result) ==
    [event |-> i,
     tick |-> ticks + 1,
     elapsed_life |-> now - components[c].life_start_time,
     elapsed_time |-> now - passed_last_event_time(c),
     since_fire |-> IF last_fire[i] = -1 THEN -1 ELSE now - last_fire[i],
     armed |-> events[i].random_time_set,
     due |-> events[i].random_time_set /\ now >= events[i].random_time,
     executed |-> events[i].executed,
     result |-> IF result.raised # "none" THEN "raised"
                ELSE IF result.active THEN "true" ELSE "false"]

RECURSIVE calls_made(_, _, _)
calls_made(res, results, c) ==
    IF c = 0 THEN <<>>
    ELSE calls_made(res, results, c - 1) \o
         [k \in 1..Len(res[c].made) |->
            CallRecord(res[c].made[k], c, results[res[c].made[k]])]

\* The first component whose checkpoint raises, 0 if none does.
FirstRaiser(res) ==
    LET raisers == {c \in 1..NumComponents : res[c].raised # "none"}
    IN IF raisers = {} THEN 0
       ELSE CHOOSE c \in raisers : \A c2 \in raisers : c <= c2

\* The event's fields after the checkpoint: those its call left, marked
\* executed if the call returned true (set_executed).
EventAfter(i, r, result) ==
    IF i \in Range(r.made)
    THEN [result.rt EXCEPT !.executed = @ \/ i \in Range(r.active_events)]
    ELSE events[i]

\* SystemUnderTest.checkpoint when the components up to last are visited and
\* component cr raises (cr = 0: none does, and the lists are returned).
checkpoint_upto(res, results, cr, last) ==
    [raised |-> IF cr = 0 THEN "none" ELSE res[cr].raised,
     events |-> IF cr = 0 THEN extend_events(res, NumComponents) ELSE <<>>,
     calls |-> calls_made(res, results, last),
     components |-> [c \in 1..NumComponents |->
                       IF c <= last THEN res[c].comp ELSE components[c]],
     rt |-> [i \in 1..NumEvents |->
               IF config[i].comp <= last
               THEN EventAfter(i, res[config[i].comp], results[i])
               ELSE events[i]]]

checkpoint_components(res, results, cr) ==
    checkpoint_upto(res, results, cr, IF cr = 0 THEN NumComponents ELSE cr)

checkpoint_results(res, results) ==
    checkpoint_components(res, results, FirstRaiser(res))

\* SystemUnderTest.checkpoint: the components in order, up to and with the
\* first whose checkpoint raises.
sut_checkpoint(results) ==
    checkpoint_results(
        [c \in 1..NumComponents |-> component_checkpoint(c, results)],
        results)

\* What the calls of one checkpoint may draw: a sample for the hazard
\* models, a randint value for the random model.
ChoicesOf(e) ==
    {[u |-> u, r |-> r] :
        u \in IF e.p_model \in {EVENT_PMOD_EXP, EVENT_PMOD_NORM, EVENT_PMOD_WEI}
              THEN {0, 1} ELSE {0},
        r \in IF e.p_model = EVENT_PMOD_RANDOM THEN RandInts(e) ELSE {0}}

RECURSIVE Choices(_)
Choices(n) ==
    IF n = 0 THEN {<<>>}
    ELSE {Append(s, x) : s \in Choices(n - 1), x \in ChoicesOf(config[n])}

\* --------------------------------------------------------- core/scheduler.py
\* get_function storing what getattr gave before the callable test.
get_function_store_first(func_name, cache) ==
    IF func_name \in DOMAIN cache
    THEN [raised |-> "none", args |-> <<>>, func |-> cache[func_name],
          cache |-> cache]
    ELSE IF func_name \notin DOMAIN FaultModule
    THEN [raised |-> "AttributeError", args |-> <<"no attribute">>,
          func |-> None, cache |-> cache]
    ELSE [raised |-> IF FaultModule[func_name].callable THEN "none"
                     ELSE "AttributeError",
          args |-> <<>>, func |-> FaultModule[func_name],
          cache |-> [n \in DOMAIN cache \cup {func_name} |->
                       IF n = func_name THEN FaultModule[func_name]
                       ELSE cache[n]]]

\* get_function raising AttributeError() for a name the module lacks too.
get_function_bare(func_name, cache) ==
    IF func_name \in DOMAIN cache
    THEN [raised |-> "none", args |-> <<>>, func |-> cache[func_name],
          cache |-> cache]
    ELSE IF func_name \notin DOMAIN FaultModule
            \/ ~FaultModule[func_name].callable
    THEN [raised |-> "AttributeError", args |-> <<>>,
          func |-> None, cache |-> cache]
    ELSE [raised |-> "none", args |-> <<>>, func |-> FaultModule[func_name],
          cache |-> [n \in DOMAIN cache \cup {func_name} |->
                       IF n = func_name THEN FaultModule[func_name]
                       ELSE cache[n]]]

\* Scheduler.get_function: the callable for func_name, cached once found.
\* getattr raises AttributeError with a message for a name the module does
\* not bind; a binding that is not callable raises AttributeError().
get_function(func_name, cache) ==
    IF func_name \in DOMAIN cache
    THEN [raised |-> "none", args |-> <<>>, func |-> cache[func_name],
          cache |-> cache]
    ELSE IF func_name \notin DOMAIN FaultModule
    THEN [raised |-> "AttributeError", args |-> <<"no attribute">>,
          func |-> None, cache |-> cache]
    ELSE IF ~FaultModule[func_name].callable
    THEN [raised |-> "AttributeError", args |-> <<>>,
          func |-> None, cache |-> cache]
    ELSE [raised |-> "none", args |-> <<>>, func |-> FaultModule[func_name],
          cache |-> [n \in DOMAIN cache \cup {func_name} |->
                       IF n = func_name THEN FaultModule[func_name]
                       ELSE cache[n]]]

\* A worker ended by an exception still counted as running.
is_alive_or_failed(job) ==
    job.alive \/ job.raised

\* threading.Thread.is_alive of a worker in run()'s list.
is_alive(job) ==
    job.alive

\* The dry-run flag never read as set.
IsDryRunNever ==
    FALSE

\* if self._dryrun
IsDryRun ==
    dryrun

\* Event.select_component_target: what choice(self._targets) can return.
select_component_target(e) ==
    Range(e.targets)

\* The call Scheduler.worker makes: the function and its keyword arguments,
\* target being what select_component_target returned.
worker(func, args, target) ==
    [func |-> func.name, target |-> target, udf1 |-> args.udf1,
     udf2 |-> args.udf2, udf3 |-> args.udf3, udd |-> args.udd]

\* threading.Thread(target = self.worker, args = (fault, e)) once started;
\* invoked holds the calls of the fault function the thread has made.
NewWorker(fault, e) ==
    [event |-> e, func |-> fault, alive |-> TRUE, raised |-> FALSE,
     invoked |-> <<>>]

\* The worker's thread has ended: worker() made its call and returned, or
\* the fault function raised and the exception ended the thread (raised).
worker_ended(job, raised, call) ==
    [job EXCEPT !.alive = FALSE, !.raised = raised,
                !.invoked = Append(@, call)]

\* A worker that clears the executed mark of its event.
worker_clears_executed(rt) ==
    [rt EXCEPT !.executed = FALSE]

\* The runtime fields of the event a worker was given, after the worker has
\* run: worker() calls the event's getters and select_component_target only.
worker_event_after(rt) ==
    rt

\* The stop test never finding the flag.
StopIsSetNever ==
    FALSE

\* self._stop.isSet()
StopIsSet ==
    stop

\* A join that does not wait.
JoinReturnsAtOnce(job) ==
    TRUE

\* Thread.join returns once the worker has ended.
JoinReturns(job) ==
    ~job.alive

LogRecord(msg, fault) ==
    [msg |-> msg, fault |-> fault]

AliveIn(js) ==
    Cardinality({j \in 1..Len(js) : js[j].alive})

\* The scheduler thread enters run(): jobs = [], 'Running'.
RunStart ==
    /\ pc = "start"
    /\ \E d \in 0..MaxJitter : now' = now + d
    /\ pc' = "reap"
    /\ jobs' = <<>>
    /\ log' = LogRecord("Running", "")
    /\ UNCHANGED <<main_vars, z_search, parse>>
    /\ UNCHANGED <<config, dryrun, components, events, stop, untracked, fired,
                   join_idx, function_cache, error, calls, nfired, stop_seen,
                   ticks, last_fire>>

\* jobs = [job for job in jobs if job.is_alive()]
Reap ==
    /\ pc = "reap"
    /\ jobs' = SelectSeq(jobs, is_alive)
    /\ untracked' = untracked + AliveIn(jobs) - AliveIn(jobs')
    /\ pc' = "test"
    /\ UNCHANGED <<main_vars, z_search, parse>>
    /\ UNCHANGED <<config, dryrun, now, components, events, stop, fired,
                   join_idx, function_cache, error, log, calls, nfired,
                   stop_seen, ticks, last_fire>>

\* The last clock reading at which the model begins a further tick.
Horizon ==
    IF config \in ScenarioConfigs THEN MaxScenarioTime ELSE MaxTime

\* if self._stop.isSet(): begin the drain; otherwise go on to the checkpoint
\* (a further tick begins only inside the bounds of the model).
StopTest ==
    /\ pc = "test"
    /\ StopIsSet \/ (now <= Horizon /\ Len(jobs) <= MaxJobs)
    /\ IF StopIsSet
       THEN /\ pc' = "drain"
            /\ join_idx' = 1
            /\ log' = LogRecord("Stopping ...", "")
       ELSE /\ pc' = "checkpoint"
            /\ UNCHANGED <<join_idx, log>>
    /\ stop_seen' = (stop_seen \/ stop)
    /\ UNCHANGED <<main_vars, z_search, parse>>
    /\ UNCHANGED <<config, dryrun, now, components, events, stop, jobs,
                   untracked, fired, function_cache, error, calls, nfired,
                   ticks, last_fire>>

\* for job in jobs: job.join()
Join ==
    /\ pc = "drain"
    /\ join_idx <= Len(jobs)
    /\ JoinReturns(jobs[join_idx])
    /\ join_idx' = join_idx + 1
    /\ UNCHANGED <<main_vars, z_search, parse>>
    /\ UNCHANGED <<config, dryrun, now, components, events, pc, stop, jobs,
                   untracked, fired, function_cache, error, log, calls,
                   nfired, stop_seen, ticks, last_fire>>

\* return, after the join loop
Return ==
    /\ pc = "drain"
    /\ join_idx > Len(jobs)
    /\ pc' = "returned"
    /\ UNCHANGED <<main_vars, z_search, parse>>
    /\ UNCHANGED <<config, dryrun, now, components, events, stop, jobs,
                   untracked, fired, join_idx, function_cache, error, log,
                   calls, nfired, stop_seen, ticks, last_fire>>

\* An exception leaves run(): the thread ends, its list of workers is gone
\* and the workers it held run on.
Crashed(js) ==
    /\ pc' = "crashed"
    /\ jobs' = <<>>
    /\ untracked' = untracked + AliveIn(js)

Bump(n) == IF n >= 2 THEN 2 ELSE n + 1

Fired(res, i) ==
    \E k \in 1..Len(res.calls) :
        res.calls[k].event = i /\ res.calls[k].result = "true"

\* The scheduler takes what the checkpoint gave: the fired events to iterate
\* over, or the exception, which leaves run().
TakeCheckpoint(res) ==
    /\ components' = res.components
    /\ events' = res.rt
    /\ calls' = res.calls
    /\ nfired' = [i \in 1..NumEvents |->
                    IF Fired(res, i) THEN Bump(nfired[i]) ELSE nfired[i]]
    /\ ticks' = ticks + 1
    /\ last_fire' = [i \in 1..NumEvents |->
                       IF Fired(res, i) THEN now ELSE last_fire[i]]
    /\ IF res.raised # "none"
       THEN /\ Crashed(jobs)
            /\ error' = res.raised
            /\ fired' = <<>>
       ELSE /\ fired' = res.events
            /\ pc' = IF res.events = <<>> THEN "sleep" ELSE "dispatch"
            /\ UNCHANGED <<jobs, untracked, error>>

\* self._sut.checkpoint(), the iterable of run()'s for loop.
Checkpoint ==
    /\ pc = "checkpoint"
    /\ \E res \in {sut_checkpoint(CallResults(ch)) : ch \in Choices(NumEvents)} :
         TakeCheckpoint(res)
    /\ UNCHANGED <<main_vars, z_search, parse>>
    /\ UNCHANGED <<config, dryrun, now, stop, join_idx, function_cache, log,
                   stop_seen>>

\* A loop that puts the event whose name did not resolve back at the end of
\* the list it iterates over.
AfterDropRetry(active_events) ==
    Append(Tail(active_events), Head(active_events))

\* The except clause's continue: the for loop goes on with the events after
\* the one whose name did not resolve.
AfterDrop(active_events) ==
    Tail(active_events)

\* What run() does with the callable get_function gave, or its exception.
DispatchWith(e, got) ==
    IF got.raised = "AttributeError"
    THEN IF got.args = <<>>
         THEN \* err.args[0] in the handler raises IndexError
              /\ Crashed(jobs)
              /\ error' = "IndexError"
              /\ fired' = <<>>
              /\ function_cache' = got.cache
              /\ UNCHANGED log
         ELSE /\ log' = LogRecord("error", config[e].fault)
              /\ fired' = AfterDrop(fired)
              /\ pc' = IF AfterDrop(fired) = <<>> THEN "sleep" ELSE "dispatch"
              /\ function_cache' = got.cache
              /\ UNCHANGED <<jobs, untracked, error>>
    ELSE /\ function_cache' = got.cache
         /\ fired' = Tail(fired)
         /\ pc' = IF Tail(fired) = <<>> THEN "sleep" ELSE "dispatch"
         /\ IF IsDryRun
            THEN /\ log' = LogRecord("Dry run", got.func.name)
                 /\ UNCHANGED jobs
            ELSE /\ jobs' = Append(jobs, NewWorker(got.func, e))
                 /\ UNCHANGED log
         /\ UNCHANGED <<untracked, error>>

\* One pass of run()'s for loop, for the first event not yet dispatched.
Dispatch ==
    /\ pc = "dispatch"
    /\ fired # <<>>
    /\ DispatchWith(Head(fired),
                    get_function(config[Head(fired)].fault, function_cache))
    /\ UNCHANGED <<main_vars, z_search, parse>>
    /\ UNCHANGED <<config, dryrun, now, components, events, stop, join_idx,
                   calls, nfired, stop_seen, ticks, last_fire>>

\* time.sleep(1)
Sleep ==
    /\ pc = "sleep"
    /\ \E d \in 0..MaxJitter : now' = now + 1 + d
    /\ pc' = "reap"
    /\ UNCHANGED <<main_vars, z_search, parse>>
    /\ UNCHANGED <<config, dryrun, components, events, stop, jobs, untracked,
                   fired, join_idx, function_cache, error, log, calls, nfired,
                   stop_seen, ticks, last_fire>>

\* Scheduler.stop(), called from the main thread's signal handler.
Stop ==
    /\ ~stop
    /\ stop' = TRUE
    /\ UNCHANGED <<main_vars, z_search, parse>>
    /\ UNCHANGED <<config, dryrun, now, components, events, pc, jobs,
                   untracked, fired, join_idx, function_cache, error, log,
                   calls, nfired, stop_seen, ticks, last_fire>>

\* Scheduler.worker ends: the fault function has returned or raised.
WorkerFinish ==
    /\ \E j \in 1..Len(jobs), raised \in BOOLEAN :
         /\ jobs[j].alive
         /\ \E target \in select_component_target(config[jobs[j].event]) :
              jobs' = [jobs EXCEPT ![j] =
                         worker_ended(@, raised,
                                      worker(@.func, config[@.event], target))]
         /\ events' = [events EXCEPT ![jobs[j].event] = worker_event_after(@)]
    /\ UNCHANGED <<main_vars, z_search, parse>>
    /\ UNCHANGED <<config, dryrun, now, components, pc, stop, untracked,
                   fired, join_idx, function_cache, error, log, calls, nfired,
                   stop_seen, ticks, last_fire>>

\* The same for a worker of a run() that has ended with an exception.
OrphanFinish ==
    /\ untracked > 0
    /\ untracked' = untracked - 1
    /\ UNCHANGED <<main_vars, z_search, parse>>
    /\ UNCHANGED <<config, dryrun, now, components, events, pc, stop, jobs,
                   fired, join_idx, function_cache, error, log, calls, nfired,
                   stop_seen, ticks, last_fire>>

SchedulerStep ==
    \/ RunStart
    \/ Reap
    \/ StopTest
    \/ Join
    \/ Return
    \/ Checkpoint
    \/ Dispatch
    \/ Sleep

Next ==
    \/ SchedulerStep
    \/ Stop
    \/ WorkerFinish
    \/ OrphanFinish

\* ------------------------------------------------------------ configurations
\* Two components.  The first holds two operable events and a nonoperable
\* one that brings it back, the second one operable event.
SutConfigs ==
    {<<e1, e2, e3, e4>> :
        e1 \in {EventAt(1, OPERABLE, f, st, am, pm, 2, 0, -1, -1) :
                  f \in FaultNames, st \in BOOLEAN,
                  am \in {EVENT_AMOD_RECUR, EVENT_AMOD_SINGLE},
                  pm \in {EVENT_PMOD_DETER, EVENT_PMOD_EXP}},
        e2 \in {EventAt(1, OPERABLE, "detonate_node", FALSE,
                        EVENT_AMOD_RECUR, EVENT_PMOD_DETER, 1, 2, -1, -1)},
        e3 \in {EventAt(1, NONOPERABLE, "detonate_node", TRUE,
                        EVENT_AMOD_RECUR, EVENT_PMOD_DETER, 1, 1, -1, -1)},
        e4 \in {EventAt(2, OPERABLE, "detonate_node", FALSE,
                        EVENT_AMOD_RECUR, pm, 1, 1, -1, -1) :
                  pm \in {EVENT_PMOD_DETER, EVENT_PMOD_RANDOM}}}

\* mttf is varied only for the probability models that read it.
UsesMttf(e) ==
    e.mttf = 1 \/ e.p_model \in {EVENT_PMOD_EXP, EVENT_PMOD_NORM, EVENT_PMOD_WEI}

\* One component with two operable events: the first ranges over the
\* activation and probability models, thresholds and effective windows (its
\* fault name is not bound, so its firings start no worker), the second
\* moves the component's last event time and starts the workers.
GateConfigs ==
    {<<g1, g2>> :
        g1 \in {e \in {EventAt(1, OPERABLE, "no_such_fault", FALSE, am, pm,
                                 mttf, th, es, ee) :
                  am \in {EVENT_AMOD_RECUR, EVENT_AMOD_SINGLE},
                  pm \in {EVENT_PMOD_DETER, EVENT_PMOD_EXP, EVENT_PMOD_NORM,
                          EVENT_PMOD_WEI, EVENT_PMOD_RANDOM},
                  mttf \in {1, 4}, th \in {0, 2}, es \in {-1, 0, 2},
                  ee \in {-1, 0, 2}} : UsesMttf(e)},
        g2 \in {EventAt(1, OPERABLE, "detonate_node", FALSE,
                        EVENT_AMOD_RECUR, EVENT_PMOD_DETER, 1, 1, -1, -1)}}

\* -------------------------------------------------- configuration files read
\* A JSON object with one key more, and with one key less.
With(d, key, v) ==
    [k \in DOMAIN d \cup {key} |-> IF k = key THEN v ELSE d[k]]
Without(d, key) ==
    [k \in DOMAIN d \ {key} |-> d[k]]

\* An event definition every rule accepts.
ValidDefinition(id) ==
    [id |-> id, fault |-> "detonate_node", a_model |-> EVENT_AMOD_RECUR,
     p_model |-> EVENT_PMOD_DETER]

\* Definitions that lack fault or a_model, violate one numeric bound, or hold
\* a model or window type outside its enumeration.
InvalidDefinitions(id) ==
    {Without(ValidDefinition(id), "fault"),
     Without(ValidDefinition(id), "a_model"),
     With(ValidDefinition(id), "mttf", 0),
     With(ValidDefinition(id), "threshold", -1),
     With(ValidDefinition(id), "effective_start", -2),
     With(ValidDefinition(id), "effective_end", -2),
     With(ValidDefinition(id), "standard_deviation", 0),
     With(ValidDefinition(id), "shape", 0),
     With(ValidDefinition(id), "random_range", 0),
     With(ValidDefinition(id), "a_model", "periodic"),
     With(ValidDefinition(id), "p_model", "poisson"),
     With(ValidDefinition(id), "random_window_type", "tumbling")}

\* Each of them without instances and with every count up to MaxInstances,
\* and a valid one with a negative count.
EventDefinitions(id) ==
    LET base == {ValidDefinition(id)} \cup InvalidDefinitions(id)
    IN  base
        \cup {With(e, "instances", n) : e \in base, n \in 0..MaxInstances}
        \cup {With(ValidDefinition(id), "instances", -1)}

TargetLists == {<<>>, <<"node1">>, <<"node1", "node2">>}

\* Components that declare neither, one or both of the event lists, each
\* list with one definition.
ComponentsRead(id) ==
    LET heads == {[id |-> id, active |-> a, targets |-> t] :
                     a \in BOOLEAN, t \in TargetLists}
    IN  heads
        \cup {With(h, "operable_events", <<e>>) :
                 h \in heads, e \in EventDefinitions("e1")}
        \cup {With(h, "nonoperable_events", <<e>>) :
                 h \in heads, e \in EventDefinitions("e2")}
        \cup {With(With(h, "operable_events", <<e>>),
                   "nonoperable_events", <<ValidDefinition("e2")>>) :
                 h \in heads, e \in EventDefinitions("e1")}
        \cup {With(With(h, "operable_events", <<ValidDefinition("e1")>>),
                   "nonoperable_events", <<e>>) :
                 h \in heads, e \in EventDefinitions("e2")}

\* A file that opens and decodes to a SUT with the components cs.
FileOf(cs) ==
    [name |-> "", opens |-> TRUE, decodes |-> TRUE,
     json |-> [system_name |-> "sut", fault_module |-> "tutorial",
               components |-> cs]]

GoodComponent(id) ==
    [id |-> id, active |-> TRUE, targets |-> <<"node1">>,
     operable_events |-> <<ValidDefinition("e1")>>,
     nonoperable_events |-> <<ValidDefinition("e2")>>]

\* Files of one component, and of a good component before or after an
\* inactive one or one without targets.
LoadFiles ==
    {FileOf(<<c>>) : c \in ComponentsRead("c1")}
    \cup {FileOf(<<GoodComponent("c1"),
                   [GoodComponent("c2") EXCEPT !.active = a, !.targets = t]>>) :
             a \in BOOLEAN, t \in TargetLists}
    \cup {FileOf(<<[GoodComponent("c1") EXCEPT !.active = a, !.targets = t],
                   GoodComponent("c2")>>) :
             a \in BOOLEAN, t \in TargetLists}

\* The files of a command line with several: a good one, and one for each
\* way in which the construction of a scheduler ends.
StartupFiles ==
    {FileOf(<<GoodComponent("c1")>>),
     [FileOf(<<>>) EXCEPT !.opens = FALSE, !.decodes = FALSE],
     [FileOf(<<>>) EXCEPT !.decodes = FALSE],
     [FileOf(<<GoodComponent("c1")>>) EXCEPT
         !.json = Without(@, "system_name")],
     [FileOf(<<GoodComponent("c1")>>) EXCEPT
         !.json = Without(@, "fault_module")],
     [FileOf(<<GoodComponent("c1")>>) EXCEPT
         !.json = Without(@, "components")],
     [FileOf(<<GoodComponent("c1")>>) EXCEPT
         !.json.fault_module = "tutorial.py"],
     [FileOf(<<GoodComponent("c1")>>) EXCEPT
         !.json.fault_module = "no_such_module"],
     FileOf(<<[GoodComponent("c1") EXCEPT !.targets = <<>>]>>),
     FileOf(<<GoodComponent("c1"),
              [GoodComponent("c2") EXCEPT !.active = FALSE,
                                          !.targets = <<>>]>>),
     FileOf(<<Without(GoodComponent("c1"), "operable_events")>>),
     FileOf(<<[GoodComponent("c1") EXCEPT
                  !.operable_events = <<With(ValidDefinition("e1"),
                                             "mttf", 0)>>]>>)}

\* The names of the files of a command line, by position.
FileNames == <<"a.json", "b.json", "c.json", "d.json">>

\* The command line: the files fs under their names.
CommandLine(fs) ==
    [k \in 1..Len(fs) |-> [fs[k] EXCEPT !.name = FileNames[k]]]

CommandLines ==
    {CommandLine(<<f>>) : f \in LoadFiles}
    \cup {CommandLine(fs) : fs \in UNION {[1..n -> StartupFiles] :
                                            n \in 1..MaxFiles}}

\* The definition that gives an event of a configuration its attributes.
DefinitionOf(e, id) ==
    [id |-> id, fault |-> e.fault, state_transition |-> e.state_trans,
     a_model |-> e.a_model, p_model |-> e.p_model, mttf |-> e.mttf,
     threshold |-> e.thrld, effective_start |-> e.eff_s,
     effective_end |-> e.eff_e, standard_deviation |-> e.sd,
     shape |-> e.shape, random_range |-> e.r_range,
     random_window_type |-> e.r_w_type, udf1 |-> e.udf1, udf2 |-> e.udf2,
     udf3 |-> e.udf3, udd |-> e.udd]

\* The file that declares the events es, each in the list of its bucket of
\* its component; every component is active and holds an event.
RunFile(es) ==
    LET idx == [i \in 1..Len(es) |-> i]
        defs(c, b) ==
            LET sel == SelectSeq(idx, LAMBDA i : es[i].comp = c
                                                 /\ es[i].bucket = b)
            IN  [j \in 1..Len(sel) |-> DefinitionOf(es[sel[j]], sel[j])]
        targets(c) == es[First({i \in 1..Len(es) : es[i].comp = c})].targets
    IN  FileOf([c \in 1..es[Len(es)].comp |->
                   [id |-> c, active |-> TRUE, targets |-> targets(c),
                    operable_events |-> defs(c, OPERABLE),
                    nonoperable_events |-> defs(c, NONOPERABLE)]])

\* ------------------------------------------------------ dtest-controller.py
\* The exception that ends main(), none so far.
NoError == [type |-> "none", args |-> <<>>]

\* The status the process exits with after an exception of a type left
\* Scheduler(): IOError and ValueError and ImportError are caught and lead to
\* sys.exit(2), sys.exit(1) and sys.exit(1); any other exception leaves main()
\* and the interpreter exits with status 1.
ExitStatus(type) == IF type = "IOError" THEN 2 ELSE 1

\* How many of the constructed schedulers main() starts right after it has
\* constructed one of them: none, the list is started once it is complete.
StartedAtOnce(n) == n
StartedWhileConstructing(n) == 0

\* The list comprehension of main(): construct the scheduler of the next
\* file; an exception ends the comprehension and the process.
Construct ==
    /\ main_pc = "construct"
    /\ Len(schedulers) < Len(session_config_file)
    /\ \E got \in {Scheduler(session_config_file[Len(schedulers) + 1],
                              dryrun)} :
           IF got.raised = "none"
           THEN /\ schedulers' = Append(schedulers, got.value)
                /\ started' = StartedWhileConstructing(Len(schedulers) + 1)
                /\ main_pc' = IF Len(schedulers) + 1 = Len(session_config_file)
                              THEN "start" ELSE "construct"
                /\ UNCHANGED <<exit_status, main_error>>
           ELSE /\ main_pc' = "exit"
                /\ exit_status' = ExitStatus(got.raised)
                /\ main_error' = [type |-> got.raised, args |-> got.args]
                /\ UNCHANGED <<schedulers, started>>
    /\ UNCHANGED <<session_config_file, run_vars, z_search, parse>>

\* map(lambda s: s.start(), schedulers): start the next scheduler thread;
\* after the last one main() waits in signal.pause().
Start ==
    /\ main_pc = "start"
    /\ started' = started + 1
    /\ main_pc' = IF started + 1 >= Len(schedulers) THEN "pause" ELSE "start"
    /\ UNCHANGED <<session_config_file, schedulers, exit_status, main_error,
                   run_vars, z_search, parse>>

MainNext ==
    \/ Construct
    \/ Start

\* ------------------------------------------------------------ initial states
\* A scheduler thread about to run: main() has constructed the scheduler of
\* one file that declares one of the configurations cfgs, has started it and
\* waits in signal.pause().
InitWith(cfgs, dryruns) ==
    /\ dryrun \in dryruns
    /\ session_config_file \in {CommandLine(<<RunFile(c)>>) : c \in cfgs}
    /\ \E got \in {Scheduler(session_config_file[1], dryrun)} :
           /\ got.raised = "none"
           /\ schedulers = <<got.value>>
    /\ config = schedulers[1].sut.config
    /\ main_pc = "pause"
    /\ started = 1
    /\ exit_status = None
    /\ main_error = NoError
    /\ z_search = NoSearch
    /\ parse = NoParse
    /\ now = 0
    /\ components = [c \in 1..NumComponents |-> NewComponent(now)]
    /\ events = [i \in 1..NumEvents |-> NewEvent(now)]
    /\ pc = "start"
    /\ stop = FALSE
    /\ jobs = <<>>
    /\ untracked = 0
    /\ fired = <<>>
    /\ join_idx = 1
    /\ function_cache = [n \in {} |-> None]
    /\ error = "none"
    /\ log = LogRecord("", "")
    /\ calls = <<>>
    /\ nfired = [i \in 1..NumEvents |-> 0]
    /\ stop_seen = FALSE
    /\ ticks = 0
    /\ last_fire = [i \in 1..NumEvents |-> -1]

Init ==
    InitWith(SutConfigs, BOOLEAN)

Spec ==
    Init /\ [][Next]_vars

InitGate ==
    InitWith(GateConfigs, {FALSE})

SpecGate ==
    InitGate /\ [][Next]_vars

InitScenario ==
    InitWith(ScenarioConfigs, BOOLEAN)

SpecScenario ==
    InitScenario /\ [][Next]_vars

\* No scheduler has been constructed: the variables of the scheduler thread
\* hold nothing.
NoScheduler ==
    /\ dryrun = FALSE
    /\ config = <<>>
    /\ now = 0
    /\ components = <<>>
    /\ events = <<>>
    /\ pc = "start"
    /\ stop = FALSE
    /\ jobs = <<>>
    /\ untracked = 0
    /\ fired = <<>>
    /\ join_idx = 1
    /\ function_cache = [n \in {} |-> None]
    /\ error = "none"
    /\ log = LogRecord("", "")
    /\ calls = <<>>
    /\ nfired = <<>>
    /\ stop_seen = FALSE
    /\ ticks = 0
    /\ last_fire = <<>>

\* main() before it constructs the first scheduler of a command line.
MainStarts(lines) ==
    /\ session_config_file \in lines
    /\ schedulers = <<>>
    /\ main_pc = "construct"
    /\ started = 0
    /\ exit_status = None
    /\ main_error = NoError

InitStartup ==
    /\ MainStarts(CommandLines)
    /\ z_search = NoSearch
    /\ parse = NoParse
    /\ NoScheduler

SpecStartup ==
    InitStartup /\ [][MainNext]_vars

\* A thread about to call normal_hazard; nothing else runs.
InitZ ==
    /\ MainStarts({<<>>})
    /\ z_search \in ZSearches
    /\ parse = NoParse
    /\ NoScheduler

SpecZ ==
    InitZ /\ [][ZNext]_vars

\* A thread about to call parse_fault; nothing else runs.
InitParse ==
    /\ MainStarts({<<>>})
    /\ z_search = NoSearch
    /\ parse \in {[NoParse EXCEPT !.func = f] : f \in Funcs}
    /\ NoScheduler

SpecParse ==
    InitParse /\ [][ParseFault]_vars

\* The scheduler thread and the worker threads are scheduled by the
\* operating system and keep running; stop() is up to the operator.
Fairness ==
    /\ WF_vars(SchedulerStep)
    /\ WF_vars(WorkerFinish)
    /\ WF_vars(OrphanFinish)

FairSpec ==
    Init /\ [][Next]_vars /\ Fairness

\* ------------------------------------------------------------------ claims
CallsOf(i) ==
    {k \in 1..Len(calls) : calls[k].event = i}

\* C1: a singular event's is_active returns true at most once over the
\* whole run, also after its component has left its bucket and come back.
C1_SingularAtMostOnce ==
    \A i \in 1..NumEvents :
        is_singular_event(config[i]) => nfired[i] <= 1

\* A singular event that has fired, whose component has been through the
\* other bucket, and whose latest call returned false.
C1_Witness ==
    \E i \in 1..NumEvents :
        /\ is_singular_event(config[i])
        /\ nfired[i] = 1
        /\ \E k \in CallsOf(i) : calls[k].result = "false"
        /\ \E j \in 1..NumEvents :
              /\ config[j].comp = config[i].comp
              /\ config[j].bucket # config[i].bucket
              /\ nfired[j] >= 1

\* C2: a call of is_active made when the time since the component's last
\* event is below the event's threshold returns false, whatever the model.
C2_ThresholdRespected ==
    \A k \in 1..Len(calls) :
        calls[k].elapsed_time < config[calls[k].event].thrld
            => calls[k].result = "false"

\* A call that returned false with the threshold as the only gate closed.
C2_Witness ==
    \E k \in 1..Len(calls) :
        /\ calls[k].elapsed_time < config[calls[k].event].thrld
        /\ calls[k].elapsed_time > 0
        /\ EffectiveGate(config[calls[k].event], calls[k].elapsed_life)
        /\ nfired[calls[k].event] = 0
        /\ calls[k].result = "false"

\* C3: with effective_start > 0, a call made when the component's life is
\* shorter than effective_start returns false.
C3_BeforeEffectiveStart ==
    \A k \in 1..Len(calls) :
        /\ config[calls[k].event].eff_s > 0
        /\ calls[k].elapsed_life < config[calls[k].event].eff_s
        => calls[k].result = "false"

\* Such a call, past the threshold, of an event that would fire otherwise.
C3_Witness ==
    \E k \in 1..Len(calls) :
        /\ config[calls[k].event].eff_s > 0
        /\ calls[k].elapsed_life < config[calls[k].event].eff_s
        /\ calls[k].elapsed_time >= config[calls[k].event].thrld
        /\ config[calls[k].event].p_model = EVENT_PMOD_DETER
        /\ calls[k].result = "false"

\* C4 as claimed: with effective_end # -1, a call made when the component's
\* life is longer than effective_end returns false, for every
\* effective_start a load accepts.
C4_AfterEffectiveEnd ==
    \A k \in 1..Len(calls) :
        /\ config[calls[k].event].eff_e # -1
        /\ calls[k].elapsed_life > config[calls[k].event].eff_e
        => calls[k].result = "false"

\* C4 as amended: the same for every effective_start >= 0 (with
\* effective_start = -1 the window is not tested at all).
C4_AfterEffectiveEndStarted ==
    \A k \in 1..Len(calls) :
        /\ config[calls[k].event].eff_e # -1
        /\ config[calls[k].event].eff_s > -1
        /\ calls[k].elapsed_life > config[calls[k].event].eff_e
        => calls[k].result = "false"

\* Such a call, past the start and the threshold, of an event that would
\* fire otherwise.
C4_Witness ==
    \E k \in 1..Len(calls) :
        /\ config[calls[k].event].eff_e # -1
        /\ config[calls[k].event].eff_s > -1
        /\ calls[k].elapsed_life > config[calls[k].event].eff_e
        /\ calls[k].elapsed_life >= config[calls[k].event].eff_s
        /\ calls[k].elapsed_time >= config[calls[k].event].thrld
        /\ config[calls[k].event].p_model = EVENT_PMOD_DETER
        /\ calls[k].result = "false"

TransitionFiredIn(c) ==
    \E i \in 1..NumEvents :
        config[i].comp = c /\ config[i].state_trans /\ nfired[i] > 0

\* C5: a component in which no state-transition event has fired is
\* Operable, and a step changes a component's state only if it is a
\* checkpoint in which a state-transition event of that component fired.
C5_TransitionOnlyByEvent ==
    /\ [](\A c \in 1..NumComponents :
             ~TransitionFiredIn(c) => components[c].state = OPERABLE)
    /\ [][\A c \in 1..NumComponents :
             components'[c].state # components[c].state
             => /\ pc = "checkpoint"
                /\ \E k \in 1..Len(calls') :
                      /\ config[calls'[k].event].comp = c
                      /\ config[calls'[k].event].state_trans
                      /\ calls'[k].result = "true"]_vars

\* A component made Nonoperable by the checkpoint just run, next to events
\* that fired without a transition.
C5_Witness ==
    /\ \E k \in 1..Len(calls) :
          /\ config[calls[k].event].state_trans
          /\ calls[k].result = "true"
          /\ components[config[calls[k].event].comp].state = NONOPERABLE
    /\ \E k \in 1..Len(calls) :
          /\ ~config[calls[k].event].state_trans
          /\ calls[k].result = "true"
          /\ components[config[calls[k].event].comp].state = OPERABLE

\* C6 as claimed: once stop() has been called, no step starts a worker.
C6_NoWorkerAfterStop ==
    [][stop => Len(jobs') <= Len(jobs)]_vars

\* C6 as amended: once the stop test at the top of the loop has run with
\* the flag set, no step starts a worker.
C6_NoWorkerAfterStopSeen ==
    [][stop_seen => Len(jobs') <= Len(jobs)]_vars

\* The stop test has found the flag while workers are in flight.
C6_Witness ==
    /\ stop_seen
    /\ pc = "drain"
    /\ \E j \in 1..Len(jobs) : jobs[j].alive

\* C7: run() has returned only if no worker it started is alive, and while
\* run() is running every live worker is in the list the drain waits for.
C7_ReturnAfterDrain ==
    /\ pc = "returned" =>
          untracked = 0 /\ \A j \in 1..Len(jobs) : ~jobs[j].alive
    /\ pc # "crashed" => untracked = 0

\* run() has returned after joining workers.
C7_Witness ==
    /\ pc = "returned"
    /\ Len(jobs) >= 2

\* C8: once stop() has been called on a running scheduler, run() returns.
C8_StopLeadsToReturn ==
    (stop /\ pc \notin {"start", "returned", "crashed"}) ~> (pc = "returned")

HeadFault ==
    config[Head(fired)].fault

\* The step run() takes for the first undispatched event.
DispatchStep ==
    pc = "dispatch" /\ fired # <<>> /\ (fired' # fired \/ pc' # pc)

\* C9: dispatching an event whose fault name the module does not bind
\* starts no worker, logs the error, leaves run() running and goes on to
\* the next fired event or to the sleep.
C9_MissingNameSkipped ==
    [][DispatchStep /\ HeadFault \notin DOMAIN FaultModule
       => /\ jobs' = jobs
          /\ fired' = Tail(fired)
          /\ pc' = (IF Tail(fired) = <<>> THEN "sleep" ELSE "dispatch")
          /\ error' = "none"
          /\ log' = LogRecord("error", HeadFault)]_vars

\* A missing name has been skipped, the events after it in the same tick
\* were dispatched, and a later tick has been dispatched too.
C9_Witness ==
    /\ log = LogRecord("error", "no_such_fault")
    /\ pc = "sleep"
    /\ now >= 2
    /\ \E j \in 1..Len(jobs) : jobs[j].alive /\ jobs[j].event > 1

\* C10: dispatching an event whose fault name is bound to something not
\* callable is handled like a missing name.
C10_NonCallableSkipped ==
    [][DispatchStep /\ HeadFault \in DOMAIN FaultModule
                    /\ ~FaultModule[HeadFault].callable
       => /\ jobs' = jobs
          /\ fired' = Tail(fired)
          /\ pc' = (IF Tail(fired) = <<>> THEN "sleep" ELSE "dispatch")
          /\ error' = "none"]_vars

\* C11: with dry_run set the scheduler holds no worker thread, running or
\* ended, in any reachable state: none is ever started.
C11_DryRunStartsNoWorker ==
    dryrun => jobs = <<>> /\ untracked = 0

\* A dry run in its second tick or later that has logged an intended action
\* for every event fired in the tick.
C11_Witness ==
    /\ dryrun
    /\ ticks >= 2
    /\ pc = "sleep"
    /\ log.msg = "Dry run"
    /\ \E k \in 1..Len(calls) : calls[k].result = "true"

\* Worker j ends in this step because its fault function raised.
WorkerFails(j) ==
    /\ Len(jobs') = Len(jobs)
    /\ jobs[j].alive
    /\ ~jobs'[j].alive
    /\ jobs'[j].raised

\* C12: a worker whose fault function raised is a finished thread; the step
\* in which it fails changes nothing of the scheduler, of the SUT or of the
\* other workers; and the reaping at the top of the next tick removes it.
C12_WorkerFailureIsolated ==
    /\ [](\A j \in 1..Len(jobs) : jobs[j].raised => ~jobs[j].alive)
    /\ [][\A j \in 1..Len(jobs) :
            WorkerFails(j)
            => /\ UNCHANGED <<pc, error, stop, now, components, events,
                              fired, join_idx, function_cache, untracked,
                              ticks, log>>
               /\ \A k \in 1..Len(jobs) : k # j => jobs'[k] = jobs[k]]_vars
    /\ [][pc = "reap" /\ pc' = "test"
          => \A j \in 1..Len(jobs') : ~jobs'[j].raised]_vars

\* run() has returned without error after a drain that waited for a worker
\* that failed and for one that did not.
C12_Witness ==
    /\ pc = "returned"
    /\ error = "none"
    /\ ticks >= 2
    /\ \E j \in 1..Len(jobs) : jobs[j].raised
    /\ \E j \in 1..Len(jobs) : ~jobs[j].raised

IsRandomFixed(e) ==
    e.p_model = EVENT_PMOD_RANDOM /\ e.r_w_type = EVENT_RAND_FIXED

C14_OncePerFixedWindow ==
    \A k \in 1..Len(calls) :
        config \in RandomScenario
        => /\ calls[k].result # "raised"
           /\ (~calls[k].armed => calls[k].result = "false")
           /\ (calls[k].due /\ calls[k].elapsed_time >= 1
               => calls[k].result = "true")

\* C15: where the operable bucket holds one event that is singular,
\* deterministic, without threshold and a state transition, the first
\* checkpoint fires it and leaves the component Nonoperable, and the event
\* has fired exactly once after any number of checkpoints.
C15_SingularTransitionOnce ==
    config \in SingularScenario
    => /\ ticks >= 1 => nfired[1] = 1 /\ events[1].executed
       /\ ticks = 1 => components[1].state = NONOPERABLE
       /\ \A k \in 1..Len(calls) :
             calls[k].event = 1
             => (calls[k].result = "true" <=> calls[k].tick = 1)

\* The component is back in the operable bucket and a checkpoint after the
\* second has evaluated the event again, to false.
C15_Witness ==
    /\ config \in SingularScenario
    /\ components[1].state = OPERABLE
    /\ \E k \in 1..Len(calls) :
          /\ calls[k].event = 1
          /\ calls[k].tick >= 3
          /\ calls[k].result = "false"

\* A call of one of the first five checkpoints of a run whose checkpoints
\* are one second apart, the first at the component's construction.
EverySecond(k) ==
    calls[k].tick <= 5 /\ calls[k].elapsed_life = calls[k].tick - 1

\* C16 as claimed: the recurring deterministic event with threshold 3 fires
\* on the first and on the fourth of five checkpoints one second apart, and
\* on no other.
C16_FiresFirstAndFourth ==
    config \in ThresholdScenario
    => \A k \in 1..Len(calls) :
          EverySecond(k)
          => (calls[k].result = "true" <=> calls[k].tick \in {1, 4})

\* C16 as amended: it fires on the fourth of them only; at the first the
\* time since the component's construction is below the threshold.
C16_FiresFourthOnly ==
    config \in ThresholdScenario
    => \A k \in 1..Len(calls) :
          EverySecond(k)
          => (calls[k].result = "true" <=> calls[k].tick = 4)

\* The fifth checkpoint, one second after the firing, has not fired.
C16_Witness ==
    /\ config \in ThresholdScenario
    /\ nfired[1] = 1
    /\ \E k \in 1..Len(calls) :
          /\ EverySecond(k)
          /\ calls[k].tick = 5
          /\ calls[k].result = "false"

\* C17: a call of is_active on a deterministic event returns true exactly
\* when the event is not an executed singular one, the component's life lies
\* in the effective window (if effective_start is set) and the time since
\* the last event has reached the threshold; with the window [2, 5], no
\* threshold and recurring activation, exactly when the elapsed life lies in
\* [2, 5].
C17_DeterministicIffGates ==
    \A k \in 1..Len(calls) :
        LET e == config[calls[k].event]
            life == calls[k].elapsed_life
        IN e.p_model = EVENT_PMOD_DETER
           => /\ calls[k].result = "true"
                 <=> /\ ~(calls[k].executed /\ e.a_model = EVENT_AMOD_SINGLE)
                     /\ ~(e.eff_s >= 0
                          /\ (life < e.eff_s
                              \/ (e.eff_e # -1 /\ life > e.eff_e)))
                     /\ calls[k].elapsed_time >= e.thrld
              /\ (config \in WindowScenario /\ e.a_model = EVENT_AMOD_RECUR
                  => (calls[k].result = "true" <=> life \in 2..5))

\* The recurring event of the window scenario, having fired several times,
\* is evaluated past the end of its window and does not fire.
C17_Witness ==
    /\ config \in WindowScenario
    /\ config[1].a_model = EVENT_AMOD_RECUR
    /\ nfired[1] >= 2
    /\ \E k \in 1..Len(calls) :
          calls[k].elapsed_life = 6 /\ calls[k].result = "false"

\* The step in which run() makes a checkpoint.
CheckpointStep ==
    pc = "checkpoint" /\ pc' # pc

\* The checkpoint just made called an event of component c with this result.
CalledIn(c, result) ==
    \E k \in 1..Len(calls') :
        config[calls'[k].event].comp = c /\ calls'[k].result = result

\* C18: every is_active call of a checkpoint is given the last_event_time
\* its component held before the checkpoint, also when an earlier event of
\* the list fires; the component's last_event_time becomes the clock of the
\* checkpoint if an event of it fired and is left alone otherwise.
C18_SameLastEventTime ==
    [][CheckpointStep
       => /\ \A k \in 1..Len(calls') :
                calls'[k].elapsed_time =
                   now - components[config[calls'[k].event].comp].last_event_time
          /\ \A c \in 1..NumComponents :
                components'[c].last_event_time =
                   IF CalledIn(c, "true") /\ ~CalledIn(c, "raised")
                   THEN now
                   ELSE components[c].last_event_time]_vars

\* Two events of one component fired in the same checkpoint, the later one
\* with a threshold that the firing of the earlier would have kept it from.
C18_Witness ==
    \E k1, k2 \in 1..Len(calls) :
        /\ k1 < k2
        /\ config[calls[k1].event].comp = config[calls[k2].event].comp
        /\ calls[k1].result = "true"
        /\ calls[k2].result = "true"
        /\ config[calls[k2].event].thrld > 0
        /\ components[config[calls[k2].event].comp].last_event_time = now

\* Before(i, j): event i is declared before event j, by component and, in
\* one component, by place in the event list.
Before(i, j) ==
    \/ config[i].comp < config[j].comp
    \/ config[i].comp = config[j].comp /\ i < j

InOrder(s) ==
    \A a, b \in 1..Len(s) : a < b => Before(s[a], s[b])

\* The events of the calls that returned true, in the order of the calls.
ReturnedTrue(cs) ==
    LET trues == SelectSeq(cs, LAMBDA r : r.result = "true")
    IN [k \in 1..Len(trues) |-> trues[k].event]

\* C19: the calls of a checkpoint are made in declaration order, the list
\* run() iterates over holds the events that returned true in that order,
\* and each pass of the loop takes the first event not yet dispatched, so
\* that workers are started in that order too.
C19_DeclarationOrder ==
    /\ [](InOrder([k \in 1..Len(calls) |-> calls[k].event]) /\ InOrder(fired))
    /\ [][CheckpointStep /\ pc' # "crashed"
          => fired' = ReturnedTrue(calls')]_vars
    /\ [][DispatchStep /\ pc' # "crashed"
          => /\ fired' = Tail(fired)
             /\ Len(jobs') > Len(jobs)
                => jobs' = Append(jobs, NewWorker(FaultModule[HeadFault],
                                                  Head(fired)))]_vars

\* A tick in which two events of the first component and one of the second
\* fired, its three workers started in that order.
C19_Witness ==
    /\ pc = "sleep"
    /\ Len(jobs) >= 3
    /\ \E j \in 1..Len(jobs) - 2 :
          /\ Before(jobs[j].event, jobs[j + 1].event)
          /\ config[jobs[j].event].comp = config[jobs[j + 1].event].comp
          /\ config[jobs[j + 1].event].comp < config[jobs[j + 2].event].comp
          /\ ReturnedTrue(calls) =
                <<jobs[j].event, jobs[j + 1].event, jobs[j + 2].event>>

\* C20: a step changes an event's runtime fields (executed, the random
\* slot) or a component's state or last_event_time only if it is the
\* scheduler thread's checkpoint; no step of a worker thread does, whatever
\* the scheduler is doing meanwhile.
C20_OnlyCheckpointWrites ==
    [][events' # events \/ components' # components => CheckpointStep]_vars

\* A worker started in an earlier tick has ended while the scheduler was
\* in a later tick's checkpoint or dispatch loop.
C20_Witness ==
    /\ ticks >= 2
    /\ pc \in {"checkpoint", "dispatch"}
    /\ \E j \in 1..Len(jobs) :
          /\ ~jobs[j].alive
          /\ events[jobs[j].event].executed
          /\ \E k \in 1..Len(jobs) : k > j /\ jobs[k].alive

\* The components a file declares, none if it does not decode to a list of
\* them.
DeclaredComponents(f) ==
    IF f.opens /\ f.decodes /\ Has(f.json, "components")
    THEN f.json.components ELSE <<>>

\* The file whose scheduler main() failed to construct.
FailedFile == session_config_file[Len(schedulers) + 1]

ActiveWithoutTargets(c) == c.active /\ c.targets = <<>>

\* C21: a file that declares an active component with an empty targets list
\* is rejected with a ValueError that carries the file's name; a file whose
\* scheduler was constructed declares no such component, its inactive
\* components (with or without targets) are not constructed, its active ones
\* are, in order, and so every constructed component has a target.
C21_EmptyTargetsRejected ==
    /\ \A k \in 1..Len(schedulers) :
          LET cs == DeclaredComponents(session_config_file[k])
              act == SelectSeq(cs, LAMBDA c : c.active)
              made == schedulers[k].sut.components
          IN  /\ \A j \in 1..Len(cs) : ~ActiveWithoutTargets(cs[j])
              /\ Len(made) = Len(act)
              /\ \A j \in 1..Len(made) :
                    /\ made[j].id = act[j].id
                    /\ made[j].targets = act[j].targets
                    /\ made[j].targets # <<>>
    /\ main_pc = "exit"
       => LET cs == DeclaredComponents(FailedFile)
          IN  (\E j \in 1..Len(cs) : ActiveWithoutTargets(cs[j]))
              => /\ main_error.type = "ValueError"
                 /\ main_error.args[Len(main_error.args)] = FailedFile.name

\* A command line whose first file declares an inactive component without
\* targets and was loaded without that component, and whose second file
\* failed on an active component without targets.
C21_Witness ==
    /\ main_pc = "exit"
    /\ Len(schedulers) = 1
    /\ \E j \in 1..Len(DeclaredComponents(session_config_file[1])) :
          LET c == DeclaredComponents(session_config_file[1])[j]
          IN  ~c.active /\ c.targets = <<>>
    /\ Len(schedulers[1].sut.components) = 1
    /\ \E j \in 1..Len(DeclaredComponents(FailedFile)) :
          ActiveWithoutTargets(DeclaredComponents(FailedFile)[j])
    /\ main_error = [type |-> "ValueError",
                     args |-> <<"Invalid 'targets' value (empty List)",
                                FailedFile.name>>]

\* The event definitions a component declares, in both lists.
DefinitionsOf(c) ==
    Get(c, "operable_events", <<>>) \o Get(c, "nonoperable_events", <<>>)

\* A definition that lacks fault or a_model, violates a numeric bound, or
\* holds a model or a window type outside its enumeration.
InvalidDefinition(e) ==
    \/ ~Has(e, "fault")
    \/ ~Has(e, "a_model")
    \/ Get(e, "mttf", 1) <= 0
    \/ Get(e, "threshold", 0) < 0
    \/ Get(e, "effective_start", -1) < -1
    \/ Get(e, "effective_end", -1) < -1
    \/ Get(e, "standard_deviation", 1) <= 0
    \/ Get(e, "shape", 1) <= 0
    \/ Get(e, "random_range", 1) <= 0
    \/ Get(e, "a_model", EVENT_AMOD_RECUR)
          \notin {EVENT_AMOD_RECUR, EVENT_AMOD_SINGLE}
    \/ Get(e, "p_model", EVENT_PMOD_DETER)
          \notin {EVENT_PMOD_EXP, EVENT_PMOD_NORM, EVENT_PMOD_WEI,
                  EVENT_PMOD_RANDOM, EVENT_PMOD_DETER}
    \/ Get(e, "random_window_type", EVENT_RAND_FIXED)
          \notin {EVENT_RAND_SLIDE, EVENT_RAND_FIXED}

\* C22: a file in which an active component declares an invalid event
\* definition, with any allowed instances count (an integer >= 0, 1 when
\* absent), is never loaded: no constructed scheduler comes from such a file,
\* and the failure of such a file that declares both lists is a ValueError
\* that carries the file's name.
C22_InvalidDefinitionRejected ==
    /\ \A k \in 1..Len(schedulers) :
          LET cs == DeclaredComponents(session_config_file[k])
          IN  \A j \in 1..Len(cs) :
                 cs[j].active
                 => \A i \in 1..Len(DefinitionsOf(cs[j])) :
                       LET e == DefinitionsOf(cs[j])[i]
                       IN  Get(e, "instances", 1) >= 0
                           => ~InvalidDefinition(e)
    /\ main_pc = "exit"
       => LET cs == DeclaredComponents(FailedFile)
          IN  (\E j \in 1..Len(cs) :
                  /\ cs[j].active
                  /\ Has(cs[j], "operable_events")
                  /\ Has(cs[j], "nonoperable_events")
                  /\ \E i \in 1..Len(DefinitionsOf(cs[j])) :
                        LET e == DefinitionsOf(cs[j])[i]
                        IN  /\ Get(e, "instances", 1) >= 0
                            /\ InvalidDefinition(e))
              => /\ main_error.type = "ValueError"
                 /\ main_error.args[Len(main_error.args)] = FailedFile.name

\* A file that opens, decodes, names an existing action module and declares
\* only well-formed components with valid event definitions.
ValidFile(f) ==
    /\ f.opens /\ f.decodes
    /\ Has(f.json, "system_name") /\ Has(f.json, "components")
    /\ Has(f.json, "fault_module")
    /\ f.json.fault_module \in {"tutorial", "tutorial.py"}
    /\ \A j \in 1..Len(f.json.components) :
          LET c == f.json.components[j]
          IN  /\ Has(c, "id") /\ Has(c, "targets") /\ Has(c, "active")
              /\ c.active => c.targets # <<>>
              /\ \A i \in 1..Len(DefinitionsOf(c)) :
                    LET e == DefinitionsOf(c)[i]
                    IN  /\ Has(e, "id")
                        /\ Get(e, "instances", 1) >= 0
                        /\ ~InvalidDefinition(e)

\* The component declares exactly one of the two event lists.
DeclaresOneList(c) ==
    Has(c, "operable_events") # Has(c, "nonoperable_events")

\* How many events a list of definitions asks for.
InstancesAsked(es) ==
    Len(Instances([i \in 1..Len(es) |->
                      <<es[i].id, Get(es[i], "instances", 1)>>]))

\* C23: a valid file in which an active component declares only one of
\* operable_events and nonoperable_events loads without error, and the
\* events of that component are those of the declared list, all in the
\* bucket of that list.
C23_EitherListOptional ==
    /\ main_pc = "exit"
       => ~(/\ ValidFile(FailedFile)
            /\ \E j \in 1..Len(FailedFile.json.components) :
                  /\ FailedFile.json.components[j].active
                  /\ DeclaresOneList(FailedFile.json.components[j]))
    /\ \A k \in 1..Len(schedulers) :
          ValidFile(session_config_file[k])
          => LET act == SelectSeq(session_config_file[k].json.components,
                                  LAMBDA c : c.active)
                 made == schedulers[k].sut.config
             IN  \A j \in 1..Len(act) :
                    DeclaresOneList(act[j])
                    => LET mine == SelectSeq(made, LAMBDA e : e.comp = j)
                       IN  /\ Len(mine) = InstancesAsked(DefinitionsOf(act[j]))
                           /\ \A i \in 1..Len(mine) :
                                 mine[i].bucket
                                    = IF Has(act[j], "operable_events")
                                      THEN OPERABLE ELSE NONOPERABLE

\* C24: no scheduler thread is started before every scheduler has been
\* constructed; when the construction of a scheduler fails the process exits
\* with no thread started, with status 2 if the file could not be opened and
\* with status 1 otherwise (its content or its action module is at fault).
C24_StartupFailures ==
    /\ started > 0 => /\ main_pc \in {"start", "pause"}
                      /\ Len(schedulers) = Len(session_config_file)
    /\ main_pc = "construct" => exit_status = None
    /\ main_pc = "exit"
       => /\ started = 0
          /\ exit_status = IF FailedFile.opens THEN 1 ELSE 2
          /\ ~FailedFile.opens <=> main_error.type = "IOError"

\* The second file of the command line could not be opened, after the
\* scheduler of the first was constructed.
C24_Witness ==
    /\ main_pc = "exit"
    /\ Len(schedulers) = 1
    /\ ~FailedFile.opens
    /\ exit_status = 2
    /\ started = 0

\* The tabulated rows whose z is at most z_in = (t - mu) / sigma; there is
\* one exactly if z_in is not below the smallest tabulated z, -3.719.
RowsAtMost ==
    {m \in 1..Z_TABLE_LEN :
        Z_TABLE[m][2] * z_search.sigma <= (z_search.t - z_search.mu) * 1000}

\* C25: for z_in not below -3.719 the table search returns the area of the
\* row with the greatest z that is <= z_in; for z_in below -3.719 it returns
\* None and normal_hazard returns false.
C25_GreatestRowAtMost ==
    /\ z_search.searched
       => IF RowsAtMost # {}
          THEN \E m \in RowsAtMost :
                  /\ \A j \in RowsAtMost : Z_TABLE[j][2] <= Z_TABLE[m][2]
                  /\ z_search.area = Z_TABLE[m][1]
          ELSE z_search.area = None
    /\ z_search.asked /\ RowsAtMost = {} => ~z_search.fired

\* The pass of run()'s for loop that drops the first undispatched event,
\* whose fault name the module does not bind.
DropStep ==
    /\ pc = "dispatch"
    /\ fired # <<>>
    /\ HeadFault \notin DOMAIN FaultModule
    /\ stop' = stop /\ jobs' = jobs /\ untracked' = untracked

\* The events of the list run() iterates over after the step that were not
\* left over from the list before it.
NewlyFired ==
    IF pc = "dispatch" /\ \E n \in 0..Len(fired) : fired' = SubSeq(fired, n + 1, Len(fired))
    THEN {}
    ELSE Range(fired')

\* C26: a firing dropped because its fault name does not resolve is not
\* dispatched again: the drop leaves the event executed and its component's
\* last_event_time at the clock of the firing, and takes the event off the
\* list; the event comes onto the list again only by a later checkpoint on a
\* later clock in which its is_active returned true with its gates open,
\* which for a singular event never happens.
C26_DroppedNeverRetried ==
    /\ [][DropStep
          => /\ fired' = Tail(fired)
             /\ events' = events
             /\ components' = components
             /\ events[Head(fired)].executed
             /\ components[config[Head(fired)].comp].last_event_time
                   >= last_fire[Head(fired)]]_vars
    /\ [][\A i \in NewlyFired :
            config[i].fault \notin DOMAIN FaultModule /\ nfired[i] >= 1
            => /\ CheckpointStep
               /\ now > last_fire[i]
               /\ ~is_singular_event(config[i])
               /\ \E k \in 1..Len(calls') :
                    /\ calls'[k].event = i
                    /\ calls'[k].result = "true"
                    /\ EffectiveGate(config[i], calls'[k].elapsed_life)
                    /\ ThresholdGate(config[i], calls'[k].elapsed_time)]_vars

\* A recurring event with an unbound fault name has been dropped, has fired
\* again on a later tick and has been dropped again, and a singular one has
\* been dropped and called again without firing.
C26_Witness ==
    /\ pc = "sleep"
    /\ log = LogRecord("error", "no_such_fault")
    /\ \E i \in 1..NumEvents :
          /\ config[i].fault \notin DOMAIN FaultModule
          /\ events[i].executed
          /\ \/ ~is_singular_event(config[i]) /\ nfired[i] = 2
             \/ /\ is_singular_event(config[i]) /\ nfired[i] = 1
                /\ last_fire[i] < now
                /\ \E k \in CallsOf(i) : calls[k].result = "false"

\* The call record k of the checkpoint just made belongs to a random-model
\* event that passed the window and threshold gates.
RandomCallPastGates(k) ==
    LET e == config[calls'[k].event]
    IN /\ e.p_model = EVENT_PMOD_RANDOM
       /\ ~(calls'[k].executed /\ is_singular_event(e))
       /\ EffectiveGate(e, calls'[k].elapsed_life)
       /\ ThresholdGate(e, calls'[k].elapsed_time)

\* C27: a call of is_active on a random-model event past its gates, with no
\* fire time armed and the clock past window_end, returns false, arms a fire
\* time of the old window_end plus an integer in [threshold, random_range]
\* and sets window_end to now + random_range (fixed) or to the fire time
\* (sliding); a call with the armed time reached disarms and returns true.
C27_RandomModelArms ==
    [][CheckpointStep
       => \A k \in 1..Len(calls') :
            LET i == calls'[k].event
            IN RandomCallPastGates(k)
               => /\ ~calls'[k].armed /\ now > events[i].window_end
                     => /\ calls'[k].result = "false"
                        /\ events'[i].random_time_set
                        /\ events'[i].random_time - events[i].window_end
                              \in config[i].thrld..config[i].r_range
                        /\ events'[i].window_end =
                              IF config[i].r_w_type = EVENT_RAND_FIXED
                              THEN now + config[i].r_range
                              ELSE events'[i].random_time
                  /\ calls'[k].due
                     => /\ calls'[k].result = "true"
                        /\ ~events'[i].random_time_set]_vars

\* The fault name of event i is bound to a callable of the action module.
Resolves(i) ==
    /\ config[i].fault \in DOMAIN FaultModule
    /\ FaultModule[config[i].fault].callable

\* The fired events the step takes off the list run() iterates over.
TakenOff ==
    IF pc = "dispatch" THEN Range(fired) \ Range(fired') ELSE {}

\* The calls of its fault function a worker has made are calls of the
\* callable its event names, for a target of the event and with the event's
\* user-defined values.
CallsAsConfigured(job) ==
    \A n \in 1..Len(job.invoked) :
        LET call == job.invoked[n]
            e == config[job.event]
        IN /\ call.func = FaultModule[e.fault].name
           /\ call.target \in Range(e.targets)
           /\ call.udf1 = e.udf1 /\ call.udf2 = e.udf2
           /\ call.udf3 = e.udf3 /\ call.udd = e.udd

\* C28: with dry_run off, every fired event whose fault name resolves gets
\* exactly one worker, started in the tick of the firing, and the worker
\* calls the resolved function exactly once, with a target of the event's
\* target list and the event's udf1, udf2, udf3 and udd.
C28_OneWorkerOneCall ==
    /\ [][\A i \in TakenOff :
            Resolves(i) /\ ~dryrun
            => /\ Len(jobs') = Len(jobs) + 1
               /\ SubSeq(jobs', 1, Len(jobs)) = jobs
               /\ jobs'[Len(jobs')].event = i
               /\ jobs'[Len(jobs')].alive]_vars
    /\ [](\A j \in 1..Len(jobs) :
            /\ Len(jobs[j].invoked) = (IF jobs[j].alive THEN 0 ELSE 1)
            /\ CallsAsConfigured(jobs[j]))

\* The same for the passes of run()'s for loop alone: a pass for an event
\* whose name resolves starts one worker for it.
C28_OneWorkerPerPass ==
    /\ [][DispatchStep /\ Resolves(Head(fired)) /\ ~dryrun
          => /\ jobs' = Append(jobs, NewWorker(FaultModule[HeadFault],
                                               Head(fired)))
             /\ fired' = Tail(fired)]_vars
    /\ [](\A j \in 1..Len(jobs) :
            /\ Len(jobs[j].invoked) = (IF jobs[j].alive THEN 0 ELSE 1)
            /\ CallsAsConfigured(jobs[j]))

\* A worker has called detonate_node for the second target of its event.
C28_Called ==
    \E j \in 1..Len(jobs) :
        /\ jobs[j].invoked # <<>>
        /\ jobs[j].invoked[1].target = "node2"
        /\ jobs[j].invoked[1].udd = [volts |-> 9]

\* C29: the function cache holds successful resolutions only: every name
\* it holds is mapped to the callable the fault module binds to it; a
\* resolution of a name it holds or of a callable binding gives that callable
\* (to the worker, or to the dry-run record) and leaves the name cached; a
\* resolution that fails, for a missing or a non-callable name, leaves the
\* cache as it was; nothing else writes the cache.
C29_CacheOnlySuccesses ==
    /\ [](\A n \in DOMAIN function_cache :
            /\ n \in DOMAIN FaultModule
            /\ FaultModule[n].callable
            /\ function_cache[n] = FaultModule[n])
    /\ [][DispatchStep
          => IF Resolves(Head(fired))
             THEN /\ DOMAIN function_cache' =
                        DOMAIN function_cache \cup {HeadFault}
                  /\ \A n \in DOMAIN function_cache :
                        function_cache'[n] = function_cache[n]
                  /\ IF dryrun
                     THEN log' = LogRecord("Dry run",
                                           FaultModule[HeadFault].name)
                     ELSE jobs'[Len(jobs')].func = FaultModule[HeadFault]
             ELSE function_cache' = function_cache]_vars
    /\ [][~DispatchStep => function_cache' = function_cache]_vars

\* The cache holds detonate_node, two workers were given it by two
\* resolutions, and a missing name has failed to resolve twice in between.
C29_Witness ==
    /\ DOMAIN function_cache = {"detonate_node"}
    /\ config[1].fault = "no_such_fault"
    /\ nfired[1] = 2
    /\ log = LogRecord("error", "no_such_fault")
    /\ \E j1, j2 \in 1..Len(jobs) :
          /\ j1 < j2
          /\ jobs[j1].func = function_cache["detonate_node"]
          /\ jobs[j2].func = function_cache["detonate_node"]

\* The precomputed-fire-time slot of an event.
Slot(rt) ==
    <<rt.random_time_set, rt.random_time, rt.window_end>>

\* The call record k of the checkpoint just made is of a call that the
\* singular, the effective-window or the threshold gate ended.
EndedAtGate(k) ==
    LET e == config[calls'[k].event]
    IN \/ calls'[k].executed /\ is_singular_event(e)
       \/ ~EffectiveGate(e, calls'[k].elapsed_life)
       \/ ~ThresholdGate(e, calls'[k].elapsed_time)

\* C30: the slot (random_time_set, random_time, window_end) of an event
\* whose model is not random never changes, whatever calls of is_active are
\* made; the slot of a random event is left as it was by a checkpoint that
\* did not call it and by a call that fails the singular, effective-window
\* or threshold gate.
C30_SlotUntouched ==
    [][\A i \in 1..NumEvents :
         /\ config[i].p_model # EVENT_PMOD_RANDOM
            => Slot(events'[i]) = Slot(events[i])
         /\ ~CheckpointStep
            => Slot(events'[i]) = Slot(events[i])
         /\ (\A k \in 1..Len(calls') : calls'[k].event = i => EndedAtGate(k))
            => Slot(events'[i]) = Slot(events[i])]_vars

\* A checkpoint has called a random event whose threshold gate was closed
\* and, after it, an event of another model that fired.
C30_Witness ==
    /\ pc = "dispatch"
    /\ \E k1, k2 \in 1..Len(calls) :
          /\ k1 < k2
          /\ config[calls[k1].event].p_model = EVENT_PMOD_RANDOM
          /\ calls[k1].elapsed_time < config[calls[k1].event].thrld
          /\ calls[k1].result = "false"
          /\ config[calls[k2].event].p_model # EVENT_PMOD_RANDOM
          /\ calls[k2].result = "true"

\* The line is a tag, and a tag that opens a block: [fault], not [/fault].
IsTag(line) ==
    TAG_RE(strip(line))
IsOpeningTag(line) ==
    IsTag(line) /\ "/" \notin Range(line)

\* The least and the greatest of a set of line numbers.
Least(S) == CHOOSE i \in S : \A j \in S : i <= j
Greatest(S) == CHOOSE i \in S : \A j \in S : i >= j

\* The key = value pairs of the lines of doc after line first and before the
\* next tag, a repeated key with its last value.
PairsAfter(doc, first) ==
    LET closes == {i \in first + 1..Len(doc) : IsTag(doc[i])}
        last == IF closes = {} THEN Len(doc) + 1 ELSE Least(closes)
        pairs == {i \in first + 1..last - 1 :
                     KEY_VALUE_RE(strip(doc[i])).matched}
        keys == {KEY_VALUE_RE(strip(doc[i])).key : i \in pairs}
    IN  [k \in keys |->
           KEY_VALUE_RE(strip(doc[Greatest(
               {i \in pairs : KEY_VALUE_RE(strip(doc[i])).key = k})])).value]

\* The pairs of the block that the first of the lines in opens begins.
PairsOfBlock(doc, opens) ==
    IF opens = {} THEN NoKeyValues ELSE PairsAfter(doc, Least(opens))

\* C31: parse_fault returns exactly the key = value pairs of the lines
\* between the first [fault] tag of the docstring and the next tag: nothing
\* of the lines before the opening tag or after the closing tag, blank lines
\* skipped, a repeated key with its last value.
C31_FirstBlockOnly ==
    parse.called /\ parse.func.has_doc
    => parse.key_values =
          PairsOfBlock(parse.func.doc,
                       {i \in 1..Len(parse.func.doc) :
                           IsOpeningTag(parse.func.doc[i])})

\* The same with the block beginning at the first tag of either form.
C31_FromFirstTag ==
    parse.called /\ parse.func.has_doc
    => parse.key_values =
          PairsOfBlock(parse.func.doc,
                       {i \in 1..Len(parse.func.doc) : IsTag(parse.func.doc[i])})

\* A docstring with a pair before the block, a key given twice in it and a
\* second block after it has been parsed.
C31_Parsed ==
    /\ parse.called
    /\ Len(parse.func.doc) = 4
    /\ DOMAIN parse.key_values = {<<"a">>}
    /\ parse.key_values[<<"a">>] = <<"2">>
    /\ ~IsTag(parse.func.doc[1])
    /\ IsTag(parse.func.doc[4])

\* C32: a started scheduler keeps ticking until shutdown is requested: as
\* long as stop() has not been called, run() has neither returned nor been
\* left by an exception, whatever the configuration loaded and whatever the
\* fault names resolve to.
C32_RunsUntilStopped ==
    ~stop => pc \notin {"returned", "crashed"} /\ error = "none"

\* A recurring deterministic event without an effective window.
RecurringDeterministic(e) ==
    /\ e.a_model = EVENT_AMOD_RECUR
    /\ e.p_model = EVENT_PMOD_DETER
    /\ e.eff_s = -1 /\ e.eff_e = -1

\* The seconds since the event of call k fired last, since its component
\* was constructed if it has not fired.
SinceOwnFiring(k) ==
    IF calls[k].since_fire = -1 THEN calls[k].elapsed_life
    ELSE calls[k].since_fire

\* C33 as claimed, for the ticks the scheduler makes: in a component that
\* stays Operable an operable event that is recurring and deterministic and
\* has no effective window is not kept from firing by the other events of
\* its component: a checkpoint that comes threshold seconds or more after the
\* event's last firing fires it again, and so it fires again and again as
\* long as the scheduler ticks.
C33_FiresAgainAndAgain ==
    config \in GateConfigs
    => \A k \in 1..Len(calls) :
          /\ RecurringDeterministic(config[calls[k].event])
          /\ SinceOwnFiring(k) >= config[calls[k].event].thrld
          => calls[k].result = "true"

\* C33 as amended: such an event with a threshold of at most one second,
\* the sleep between two checkpoints, fires at every checkpoint after the
\* first, however many events of its component fired at the checkpoint
\* before (and at the first one too if the threshold has passed since the
\* component was constructed).
C33_FiresEveryTick ==
    config \in GateConfigs
    => \A k \in 1..Len(calls) :
          /\ RecurringDeterministic(config[calls[k].event])
          /\ config[calls[k].event].thrld <= 1
          /\ calls[k].tick >= 2
             \/ calls[k].elapsed_life >= config[calls[k].event].thrld
          => calls[k].result = "true"

\* Both events of the component, with thresholds 0 and 1, have fired at two
\* checkpoints and more, the one with threshold 1 one second after both
\* fired.
C33_Witness ==
    /\ config \in GateConfigs
    /\ RecurringDeterministic(config[1]) /\ config[1].thrld = 0
    /\ nfired[1] = 2 /\ nfired[2] = 2
    /\ \E k \in 1..Len(calls) :
          /\ calls[k].event = 2
          /\ calls[k].tick >= 3
          /\ calls[k].elapsed_time = 1
          /\ calls[k].result = "true"

\* C34: after stop() has been called the scheduler begins at most one
\* further checkpoint before it enters the drain: the flag stays set, the
\* stop test never leads to a checkpoint again, so that only the checkpoint
\* whose stop test had passed before the call can still begin; and none
\* begins once the stop test has found the flag.
C34_AtMostOneCheckpointAfterStop ==
    [][/\ stop => stop'
       /\ stop /\ pc # "checkpoint" => pc' # "checkpoint"
       /\ stop_seen => ~CheckpointStep /\ pc' # "checkpoint"
       /\ stop /\ CheckpointStep => ~stop_seen /\ ticks' = ticks + 1]_vars

\* stop() was called after the stop test of a tick had passed: the
\* checkpoint of that tick, the third, is about to begin.
C34_Witness ==
    /\ stop
    /\ ~stop_seen
    /\ pc = "checkpoint"
    /\ ticks = 2

\* The event belongs to the list of the state its component is in.
InBucketOfState(i) ==
    config[i].bucket = components[config[i].comp].state

\* C35: every event a checkpoint evaluates, and every event it returns,
\* belongs to the list of the state its component was in when the checkpoint
\* started, also when a state-transition event of the component fires in
\* that checkpoint.
C35_BucketAtStart ==
    [][CheckpointStep
       => /\ \A k \in 1..Len(calls') : InBucketOfState(calls'[k].event)
          /\ \A k \in 1..Len(fired') : InBucketOfState(fired'[k])]_vars

\* The checkpoint just run fired a state-transition event of a Nonoperable
\* component and made it Operable, and called no event of its Operable list,
\* one of which has no threshold left to wait for.
C35_Witness ==
    \E k \in 1..Len(calls) :
        LET i == calls[k].event
            c == config[i].comp
        IN /\ config[i].state_trans
           /\ config[i].bucket = NONOPERABLE
           /\ calls[k].result = "true"
           /\ components[c].state = OPERABLE
           /\ \A k2 \in 1..Len(calls) :
                 config[calls[k2].event].comp = c
                 => config[calls[k2].event].bucket = NONOPERABLE
           /\ \E j \in 1..NumEvents :
                 /\ config[j].comp = c
                 /\ config[j].bucket = OPERABLE
                 /\ config[j].thrld = 0
                 /\ config[j].p_model = EVENT_PMOD_DETER
                 /\ config[j].a_model = EVENT_AMOD_RECUR

\* The positions of fs that hold a state-transition event of component c.
TransitionsOf(c, fs) ==
    {k \in 1..Len(fs) : config[fs[k]].comp = c /\ config[fs[k]].state_trans}

\* C36: a checkpoint leaves a component in the other state exactly when an
\* odd number of the component's state-transition events fired in it: two
\* such events firing in one checkpoint leave the state as it was.
C36_OddTransitionsToggle ==
    [][CheckpointStep
       => \A c \in 1..NumComponents :
             components'[c].state # components[c].state
             <=> Cardinality(TransitionsOf(c, fired')) % 2 = 1]_vars

\* The checkpoint just run fired two state-transition events and a third
\* event of the Operable list of a component, which is Operable after it.
C36_Witness ==
    \E c \in 1..NumComponents :
        /\ pc = "dispatch"
        /\ Len(fired) = 3
        /\ \A k \in 1..Len(fired) :
              config[fired[k]].comp = c /\ config[fired[k]].bucket = OPERABLE
        /\ Cardinality(TransitionsOf(c, fired)) = 2
        /\ components[c].state = OPERABLE
        /\ components[c].last_event_time = now

\* What a checkpoint leaves, from the components, the events, the clock and
\* what the calls draw; the dry-run flag and the workers are no part of it.
CheckpointOutcomes ==
    {sut_checkpoint(CallResults(ch)) : ch \in Choices(NumEvents)}

\* What a pass of run()'s for loop leaves of the list of fired events, from
\* what get_function gave for the first of them.
PassLeaves(got) ==
    IF got.raised = "AttributeError" /\ got.args = <<>> THEN <<>>
    ELSE Tail(fired)

\* C37: the flag dry_run has no part in what the scheduler does to the
\* components, the events and the list of fired events.  A checkpoint leaves
\* what the components, the events, the clock and the draws give; a pass of
\* the for loop takes the first fired event off the list (or ends run() on a
\* name that is bound to no callable) and leaves components and events; no
\* other step, a worker's among them, changes any of the three.  Two runs
\* that differ in dry_run and see the same clock and the same draws so go
\* through the same component states, executed flags, random slots,
\* last_event_times and fired events.
C37_DryRunSameEvolution ==
    [][/\ CheckpointStep
          => \E res \in CheckpointOutcomes :
                /\ components' = res.components
                /\ events' = res.rt
                /\ calls' = res.calls
                /\ fired' = IF res.raised = "none" THEN res.events ELSE <<>>
       /\ DispatchStep
          => /\ \E got \in {get_function(HeadFault, function_cache)} :
                   /\ fired' = PassLeaves(got)
                   /\ function_cache' = got.cache
             /\ UNCHANGED <<components, events>>
       /\ ~CheckpointStep /\ ~DispatchStep
          => UNCHANGED <<components, events, fired, function_cache>>]_vars

\* A run that is no dry run has made its second checkpoint after a worker
\* it started has made its call and ended, and events have fired in it.
C37_Witness ==
    /\ ~dryrun
    /\ ticks >= 2
    /\ fired # <<>>
    /\ pc = "dispatch"
    /\ \E j \in 1..Len(jobs) :
          /\ ~jobs[j].alive
          /\ jobs[j].invoked # <<>>
          /\ events[jobs[j].event].executed

\* A dry run has made its second checkpoint, events have fired in it, and
\* no worker was started.
C37_DryRunTicks ==
    /\ dryrun
    /\ ticks >= 2
    /\ fired # <<>>
    /\ pc = "dispatch"
    /\ jobs = <<>>
    /\ \E i \in 1..NumEvents : events[i].executed /\ nfired[i] >= 2

\* The calls the checkpoint just made of the events of component c.
CallsJustMadeOf(c) ==
    {k \in 1..Len(calls') : config[calls'[k].event].comp = c}

\* The checkpoint just made of component c returned an event: a call
\* returned true and none raised.
FiringIn(c) ==
    /\ \E k \in CallsJustMadeOf(c) : calls'[k].result = "true"
    /\ \A k \in CallsJustMadeOf(c) : calls'[k].result # "raised"

\* C38: a component's last_event_time is never earlier than its
\* life_start_time and no step makes it earlier than it was; a checkpoint
\* of a component in which no event fires leaves the component's state, its
\* last_event_time and the executed flag of each of its events as they were.
C38_LastEventTimeFrame ==
    /\ [](\A c \in 1..NumComponents :
             components[c].last_event_time >= components[c].life_start_time)
    /\ [][\A c \in 1..NumComponents :
             components'[c].last_event_time
                >= components[c].last_event_time]_vars
    /\ [][CheckpointStep
          => \A c \in 1..NumComponents :
                ~FiringIn(c)
                => /\ components'[c].state = components[c].state
                   /\ components'[c].last_event_time
                         = components[c].last_event_time
                   /\ \A i \in 1..NumEvents :
                         config[i].comp = c
                         => events'[i].executed = events[i].executed]_vars

\* The checkpoint just run called the events of a component and none of them
\* fired; an event of the component had fired at an earlier checkpoint, after
\* the component's construction, and the time of that firing has stayed.
C38_Witness ==
    \E c \in 1..NumComponents :
        /\ pc \in {"sleep", "dispatch"}
        /\ \E k \in 1..Len(calls) : config[calls[k].event].comp = c
        /\ \A k \in 1..Len(calls) :
              config[calls[k].event].comp = c => calls[k].result = "false"
        /\ components[c].last_event_time > components[c].life_start_time
        /\ components[c].last_event_time < now
        /\ \E i \in 1..NumEvents : config[i].comp = c /\ events[i].executed

====
